---- MODULE Spec2Model ----
(***************************************************************************)
(* Model of the NoTerm session multiplexer and tunnel engine               *)
(* (src-tauri/src/ssh_manager.rs) together with the dispatcher of          *)
(* src-tauri/src/lib.rs.                                                   *)
(*                                                                         *)
(* Threads.  Thread 0 is the dispatcher thread: the synchronous commands   *)
(* (write_to_shell, resize_pty, disconnect, execute_command) run on it and *)
(* hold the Mutex<SshManager> of AppState for the whole call.  The threads *)
(* of Workers run the asynchronous commands (connect, open_shell, sftp_*,  *)
(* start_forward, stop_forward): each takes the dispatcher mutex only to   *)
(* clone the manager and then runs on a blocking-pool thread.              *)
(*                                                                         *)
(* Mutexes.  The mutex of a transport (Arc<Mutex<Session>>) or of a        *)
(* channel is always the innermost lock a thread takes: no thread asks for *)
(* another lock while it holds one.  Such a critical section is therefore  *)
(* one atomic step here.  The only registry mutex kept across a wait is    *)
(* `sessions`, which open_shell holds from its lookup to its return; it is *)
(* derived from the position of the open_shell call (SessionsLockFree).    *)
(***************************************************************************)
EXTENDS Naturals, FiniteSets, Sequences, TLC

\* ---------------------------------------------------------------- bounds
MaxShell == 2      \* shell transports ever authenticated by connect
MaxSftp == 1       \* file-transfer transports ever authenticated
MaxFwd == 2        \* tunnel transports ever authenticated by start_forward
MaxC == 2          \* shell channels ever opened in one behaviour
MaxConns == 1      \* connections accepted per tunnel

MaxChild == 3      \* child processes ever spawned for local shells

Ids == {"a", "b"}  \* caller-supplied ids (session ids and tunnel ids)
Children == 1..MaxChild
Workers == {1, 2}  \* blocking-pool threads running asynchronous commands
Main == 0          \* the dispatcher thread
Threads == {Main} \cup Workers
None == 0
NoId == "-"
ShellPool == 1..MaxShell
SftpPool == (MaxShell + 1)..(MaxShell + MaxSftp)
FwdPool == (MaxShell + MaxSftp + 1)..(MaxShell + MaxSftp + MaxFwd)
Transports == ShellPool \cup SftpPool \cup FwdPool
Channels == 1..MaxC
Kinds == {"local", "remote", "dynamic"}

VARIABLES
  sessions,       \* SshManager.sessions:      id -> shell transport | None
  channels,       \* SshManager.channels:      id -> shell channel | None
  sftp_sessions,  \* SshManager.sftp_sessions: id -> file-transfer transport | None
  connections,    \* SshManager.connections:   id -> descriptor stored?
  forwards,       \* SshManager.forwards:      id -> ForwardHandle | None
  tp,             \* every ssh2::Session ever built
  ch,             \* every shell channel ever opened, with its reader thread
  nextC,          \* next fresh channel
  ka,             \* keepalive driver of each transport
  stop,           \* ForwardHandle.stop of each tunnel transport
  acc,            \* accept loop of each tunnel transport
  conn,           \* per tunnel, the workers of its accepted connections
  thr,            \* the operation each thread is running and where it is
  last,           \* the call that returned in the step just taken, if any
  pipe,           \* per accepted connection, the two copiers of pipe_streams
  socks,          \* per accepted connection, its SOCKS5 exchange
  term,           \* per shell channel, the chunks read and the events emitted
  dir,            \* the latest sftp_list_dir request and its result
  login,          \* the latest userauth request: its inputs and the name submitted
  local_sessions, \* LocalPtyManager.sessions: id -> child of the session | None
  child,          \* every child process ever spawned for a local shell
  nap,            \* the latest sleep of a keepalive driver
  held,           \* per mutex, the thread that holds it, if any
  lpc             \* per thread, the operation it runs and its place in it

vars == <<sessions, channels, sftp_sessions, connections, forwards, tp,
          ch, nextC, ka, stop, acc, conn, thr, last, pipe, socks, term, dir,
          login, local_sessions, child, nap, held, lpc>>

\* The local pty manager.
ptyVars == <<local_sessions, child>>

\* What lies outside the SshManager: the environment of the process and the
\* local pty manager.
\* The mutexes and the position of every thread among its lock operations.
lockVars == <<held, lpc>>

envVars == <<login, ptyVars, nap, lockVars>>

\* The byte-level state, which the control operations leave alone.
ioVars == <<pipe, socks, term, dir, envVars>>

regs == <<sessions, channels, sftp_sessions, connections, forwards>>
tunnelVars == <<stop, acc, conn>>

\* ---------------------------------------------------------------- objects
NoTransport == [role |-> "none", id |-> NoId, blocking |-> TRUE,
                auth |-> FALSE, disc |-> FALSE, kind |-> "none"]

NoChannel == [t |-> None, id |-> NoId, closed |-> FALSE, reader |-> "none",
              events |-> 0, last |-> "none", reason |-> "none"]

NoConn == [st |-> "none", late |-> FALSE]

\* What a call of create_authenticated_session was given and did: the
\* authentication method of the descriptor and the network actions performed.
NoCas == [auth |-> "none", net |-> <<>>]

IdleThread == [op |-> "none", pc |-> "idle", id |-> NoId, t |-> None,
               c |-> None, n |-> 0, fail |-> "none", dropped |-> FALSE,
               clean |-> TRUE, cas |-> NoCas]

NoCall == [th |-> Main, ret |-> "none", op |-> "none", id |-> NoId,
           t |-> None, c |-> None, n |-> 0, fail |-> "none",
           dropped |-> FALSE, clean |-> TRUE, cas |-> NoCas]

\* create_authenticated_session, success path: the TcpStream is put in
\* blocking mode and the new Session is blocking (libssh2's default).
FreshBlocking == TRUE

NewTransport(role, id, kind) ==
  [role |-> role, id |-> id, blocking |-> FreshBlocking, auth |-> TRUE,
   disc |-> FALSE, kind |-> kind]

\* Transports are named by the kind of call that builds them.
Pool(role) ==
  CASE role = "shell" -> ShellPool
    [] role = "sftp" -> SftpPool
    [] role = "fwd" -> FwdPool

Unused(role) == {t \in Pool(role) : tp[t].role = "none"}

\* create_authenticated_session can succeed only while the model still has a
\* transport to hand out; beyond that every attempt fails (resolve, connect,
\* handshake or authentication error), which the code allows at any time.
CanCreate(role, ok) == ok /\ Unused(role) /= {}

Fresh(role) == CHOOSE t \in Unused(role) : \A u \in Unused(role) : t <= u

\* ---------------------------------------------------------------- threads
Busy(th) == thr[th].pc /= "idle"

\* open_shell keeps the guard of self.sessions from line 319 to its return.
SessionsLockFree == \A th \in Workers : thr[th].pc /= "os_insert"

\* An asynchronous command first locks AppState.ssh_manager to clone it;
\* a synchronous command holds that mutex for the whole call.
DispatcherFree == ~Busy(Main)

CanStart(th) ==
  /\ ~Busy(th)
  /\ th \in Workers => DispatcherFree

\* No asynchronous call on `id` is in flight.
Quiet(id) == \A w \in Workers : Busy(w) => thr[w].id /= id

Begin(th, op, id, pc) ==
  [IdleThread EXCEPT !.op = op, !.pc = pc, !.id = id, !.clean = Quiet(id)]

\* The record of thread th once a disconnect of `id` has started beside it:
\* a call on the same id is no longer alone on that id.
Overlapped(th, id) ==
  IF Busy(th) /\ thr[th].id = id THEN [thr[th] EXCEPT !.clean = FALSE] ELSE thr[th]

\* A step in which no call returns.
Silent == last' = NoCall

\* Thread th returns `ret` from the call described by `rec`.
Return(th, rec, ret) ==
  /\ thr' = [thr EXCEPT ![th] = IdleThread]
  /\ last' = [th |-> th, ret |-> ret, op |-> rec.op,
              id |-> rec.id, t |-> rec.t, c |-> rec.c, n |-> rec.n,
              fail |-> rec.fail, dropped |-> rec.dropped, clean |-> rec.clean,
              cas |-> rec.cas]

\* A copier of pipe_streams (std::io::copy): the bytes its source was sent,
\* how many of them it has read, the chunk it holds, the bytes it has written
\* to its destination, whether it is about to read or to write, whether its
\* source was half-closed by the sending endpoint, whether the other copier
\* has closed its source, and whether one of its I/O calls failed.
NoCopier == [sent |-> <<>>, taken |-> 0, buf |-> <<>>, got |-> <<>>,
             st |-> "read", eof |-> FALSE, cut |-> FALSE, failed |-> FALSE]

Dirs == {"up", "down"}   \* client to target, target to client

NoPipe == [d \in Dirs |-> NoCopier]

\* A SOCKS5 exchange: the bytes the client sent, the bytes written to the
\* client, the target of the direct-tcpip channel if one was asked for, and
\* how the worker ended.
NoSocks == [input |-> <<>>, reply |-> <<>>, target |-> <<>>, end |-> "none"]

NoTerm == [reads |-> <<>>, events |-> <<>>]

\* The directory the server lists (`listing`) and, since it last changed, the
\* last successful sftp_list_dir: its path, what it returned, what the call
\* before it returned if that call had the same path, and how many calls in
\* a row had it (up to 2).
NoDir == [path |-> <<>>, listing |-> <<>>, out |-> <<>>, prev |-> <<>>, calls |-> 0]

\* An environment variable that is not set (std::env::var gives Err).
Unset == [set |-> FALSE, val |-> <<>>]

NoLogin == [username |-> <<>>, user |-> Unset, usernameVar |-> Unset,
            sent |-> <<>>, calls |-> 0]

\* A child process: whether it was spawned, runs or was killed and waited
\* on, and whether its session was never in the registry, is in it, or was
\* taken out of it (by disconnect or by the insert of another session).
\* Its reader thread: whether it runs, the terminal-output events it has
\* emitted, the terminal-disconnected events it has emitted, and the read
\* result on which it left its loop.
NoChild == [st |-> "none", reg |-> "never", reader |-> "none", outs |-> 0,
            events |-> 0, last |-> "none"]

\* The mutexes of the program for one session id and one tunnel id: the
\* dispatcher mutex AppState.ssh_manager, the five registry mutexes, the
\* mutex around each transport and the mutex around the shell channel.
Registries == {"sessions", "channels", "sftp_sessions", "connections", "forwards"}
Handles == {"shell_transport", "sftp_transport", "tunnel_transport", "channel"}
Mutexes == {"dispatcher"} \cup Registries \cup Handles

\* The threads that take them: the dispatcher thread (synchronous commands),
\* a blocking-pool thread (asynchronous commands), the reader thread of the
\* shell and the two keepalive drivers.
Agents == {"main", "worker", "reader", "ka_session", "ka_forward"}
Callers == {"main", "worker"}
NoOwner == "nobody"
Resting == [op |-> "none", at |-> 0]

\* No keepalive driver has slept yet.
NoNap == [t |-> None, res |-> "none", wait |-> 0, secs |-> 0]

\* Everything but the environment of the process.

InitManager ==
  /\ local_sessions = [i \in Ids |-> None]
  /\ child = [c \in Children |-> NoChild]
  /\ sessions = [i \in Ids |-> None]
  /\ channels = [i \in Ids |-> None]
  /\ sftp_sessions = [i \in Ids |-> None]
  /\ connections = [i \in Ids |-> FALSE]
  /\ forwards = [i \in Ids |-> None]
  /\ tp = [t \in Transports |-> NoTransport]
  /\ ch = [c \in Channels |-> NoChannel]
  /\ nextC = 1
  /\ ka = [t \in Transports |-> "none"]
  /\ stop = [t \in Transports |-> FALSE]
  /\ acc = [t \in Transports |-> "none"]
  /\ conn = [t \in Transports |-> [k \in 1..MaxConns |-> NoConn]]
  /\ thr = [th \in Threads |-> IdleThread]
  /\ last = NoCall
  /\ pipe = [t \in FwdPool |-> [k \in 1..MaxConns |-> NoPipe]]
  /\ socks = [t \in FwdPool |-> [k \in 1..MaxConns |-> NoSocks]]
  /\ term = [c \in Channels |-> NoTerm]
  /\ dir = NoDir
  /\ nap = NoNap
  /\ held = [m \in Mutexes |-> NoOwner]
  /\ lpc = [a \in Agents |-> Resting]

Init == InitManager /\ login = NoLogin

\* ---------------------------------------------------------------- connect
\* create_authenticated_session, lines 149-233, by stages.  `auth` is the
\* authentication method of the descriptor: a password, a private key given by
\* content, a private key given by path, or a private key whose content and
\* path are both empty.  `failAt` is the stage the environment makes fail.
\* The result is the value returned and the network actions performed.
AuthKinds == {"password", "key_content", "key_path", "key_empty"}
FailStages == {"none", "resolve", "tcp", "handshake", "auth"}

CreateAuthenticatedSession(auth, failAt) ==
  IF failAt = "resolve"                                    \* lines 150-153
    THEN [ret |-> "ResolveError", net |-> <<"resolve">>]
  ELSE IF failAt = "tcp"                                   \* lines 155-156
    THEN [ret |-> "ConnectError", net |-> <<"resolve", "tcp">>]
  ELSE IF failAt = "handshake"                             \* lines 162-166
    THEN [ret |-> "HandshakeError", net |-> <<"resolve", "tcp", "handshake">>]
  ELSE IF auth = "key_empty"                               \* lines 205-207, 215-217
    THEN [ret |-> "AuthError", net |-> <<"resolve", "tcp", "handshake">>]
  ELSE IF failAt = "auth"                                  \* lines 183-231
    THEN [ret |-> "AuthError",
          net |-> <<"resolve", "tcp", "handshake", "userauth">>]
  ELSE [ret |-> "Ok", net |-> <<"resolve", "tcp", "handshake", "userauth">>]

\* connect, line 298, with the descriptor's authentication method spelled out
ConnectCall(th, id, auth, failAt) ==
  /\ th \in Workers
  /\ CanStart(th)
  /\ LET r == CreateAuthenticatedSession(auth, failAt)
         rec == [Begin(th, "connect", id, "idle")
                   EXCEPT !.cas = [auth |-> auth, net |-> r.net]] IN
       IF r.ret = "Ok"
         THEN /\ Unused("shell") /= {}
              /\ tp' = [tp EXCEPT ![Fresh("shell")] = NewTransport("shell", id, "none")]
              /\ thr' = [thr EXCEPT ![th] =
                           [rec EXCEPT !.pc = "c_conn", !.t = Fresh("shell")]]
              /\ Silent
         ELSE /\ Return(th, rec, r.ret)
              /\ UNCHANGED tp
  /\ UNCHANGED <<regs, ch, nextC, ka, tunnelVars>>
  /\ UNCHANGED ioVars

\* Faulty variant of ConnectStart: the descriptor is stored before the
\* transport is authenticated.
ConnectStartStoreFirst(th, id, ok) ==
  /\ th \in Workers
  /\ CanStart(th)
  /\ connections' = [connections EXCEPT ![id] = TRUE]
  /\ IF CanCreate("shell", ok)
       THEN /\ tp' = [tp EXCEPT ![Fresh("shell")] = NewTransport("shell", id, "none")]
            /\ thr' = [thr EXCEPT ![th] =
                         [Begin(th, "connect", id, "c_conn")
                            EXCEPT !.t = Fresh("shell")]]
            /\ Silent
       ELSE /\ Return(th, Begin(th, "connect", id, "idle"), "AuthError")
            /\ UNCHANGED tp
  /\ UNCHANGED <<sessions, channels, sftp_sessions, forwards, ch, nextC, ka, tunnelVars>>
  /\ UNCHANGED ioVars

\* connect, line 298: create_authenticated_session(connection)?
ConnectStart(th, id, ok) ==
  /\ th \in Workers
  /\ CanStart(th)
  /\ IF CanCreate("shell", ok)
       THEN /\ tp' = [tp EXCEPT ![Fresh("shell")] = NewTransport("shell", id, "none")]
            /\ thr' = [thr EXCEPT ![th] =
                         [Begin(th, "connect", id, "c_conn")
                            EXCEPT !.t = Fresh("shell")]]
            /\ Silent
       ELSE /\ Return(th, Begin(th, "connect", id, "idle"), "AuthError")
            /\ UNCHANGED tp
  /\ UNCHANGED <<regs, ch, nextC, ka, tunnelVars>>
  /\ UNCHANGED ioVars

\* connect, lines 304-306: connections.insert(session_id, connection)
ConnectInsertConn(th) ==
  /\ thr[th].pc = "c_conn"
  /\ connections' = [connections EXCEPT ![thr[th].id] = TRUE]
  /\ thr' = [thr EXCEPT ![th].pc = "c_sess"]
  /\ UNCHANGED <<sessions, channels, sftp_sessions, forwards, tp, ch,
                 nextC, ka, tunnelVars>>
  /\ Silent
  /\ UNCHANGED ioVars

\* connect, lines 309-315: sessions.insert, spawn_keepalive_for_session, Ok
ConnectInsertSess(th) ==
  /\ thr[th].pc = "c_sess"
  /\ SessionsLockFree
  /\ sessions' = [sessions EXCEPT ![thr[th].id] = thr[th].t]
  /\ ka' = [ka EXCEPT ![thr[th].t] = "check"]
  /\ Return(th, thr[th], "Ok")
  /\ UNCHANGED <<channels, sftp_sessions, connections, forwards, tp, ch, nextC, tunnelVars>>
  /\ UNCHANGED ioVars

\* Faulty variant of ShellBlocking: the transport is left in blocking mode.
ShellBlockingKept == TRUE

\* ---------------------------------------------------------------- open_shell
\* open_shell, line 331: sess.set_blocking(false)
ShellBlocking == FALSE

\* open_shell, lines 319-332.  The sessions guard taken at line 319 is kept;
\* channel_session / request_pty / shell fail with `?` before set_blocking.
OpenShellStart(th, id, ok) ==
  /\ th \in Workers
  /\ CanStart(th)
  /\ SessionsLockFree
  /\ IF sessions[id] = None
       THEN /\ Return(th, Begin(th, "open_shell", id, "idle"), "SessionNotFound")
            /\ UNCHANGED <<tp, ch, nextC>>
       ELSE IF ok /\ nextC <= MaxC
         THEN /\ ch' = [ch EXCEPT ![nextC] =
                          [NoChannel EXCEPT !.t = sessions[id], !.id = id]]
              /\ nextC' = nextC + 1
              /\ tp' = [tp EXCEPT ![sessions[id]].blocking = ShellBlocking]
              /\ thr' = [thr EXCEPT ![th] =
                           [Begin(th, "open_shell", id, "os_insert")
                              EXCEPT !.t = sessions[id], !.c = nextC]]
              /\ Silent
         ELSE /\ Return(th, [Begin(th, "open_shell", id, "idle")
                               EXCEPT !.t = sessions[id]], "IoError")
              /\ UNCHANGED <<tp, ch, nextC>>
  /\ UNCHANGED <<regs, ka, tunnelVars>>
  /\ UNCHANGED ioVars

\* open_shell, lines 334-383: channels.insert, spawn the reader, Ok (the
\* sessions guard is dropped on return).
OpenShellInsert(th) ==
  /\ thr[th].pc = "os_insert"
  /\ channels' = [channels EXCEPT ![thr[th].id] = thr[th].c]
  /\ ch' = [ch EXCEPT ![thr[th].c].reader = "run"]
  /\ Return(th, thr[th], "Ok")
  /\ UNCHANGED <<sessions, sftp_sessions, connections, forwards, tp, nextC, ka, tunnelVars>>
  /\ UNCHANGED ioVars

\* The reader thread of open_shell, lines 343-381: one pass of its loop.
\* `res` is what channel.read returned: "data" (n > 0), "eof" (n = 0),
\* "wouldblock", or "error" (any other error, Interrupted included).
\* ch[c].last keeps the read result on which the loop was left.
ReadResults == {"data", "eof", "wouldblock", "error"}

\* Faulty variant of ReaderReason: WouldBlock is taken for a fatal error.
ReaderReasonNoWouldBlock(res) ==
  CASE res = "eof" -> "eof"
    [] res \in {"error", "wouldblock"} -> "error"
    [] OTHER -> "none"

ReaderReason(res) ==
  CASE res = "eof" -> "eof"
    [] res = "error" -> "error"
    [] OTHER -> "none"

\* Faulty variant of ReaderEmits: only an eof is reported.
ReaderEmitsOnEof(reason) == IF reason = "eof" THEN 1 ELSE 0

\* lines 376-381: the terminal-disconnected events emitted after the loop
ReaderEmits(reason) == IF reason = "none" THEN 0 ELSE 1

\* One turn of the reader's loop.  (The loop is also left, with no reason,
\* when channel_clone.lock() fails, lines 347-350: that takes a thread that
\* panicked while it held the channel's mutex, which no operation does.)
ReaderStep(c, res) ==
  /\ ch[c].reader = "run"
  /\ LET reason == ReaderReason(res) IN
       ch' = [ch EXCEPT ![c] =
                [@ EXCEPT !.last = IF reason = "none" THEN @ ELSE res,
                          !.reason = reason,
                          !.reader = IF reason = "none" THEN "run" ELSE "done",
                          !.events = @ + ReaderEmits(reason)]]
  /\ UNCHANGED <<regs, tp, nextC, ka, tunnelVars, thr>>
  /\ Silent
  /\ UNCHANGED ioVars

\* ---------------------------------------------------------------- shell I/O
\* write_to_shell, lines 386-397, and resize_pty, lines 649-659: both look the
\* channel up under the channels guard and act on it.
ShellCall(op, id, ok) ==
  /\ CanStart(Main)
  /\ Return(Main, [Begin(Main, op, id, "idle") EXCEPT !.c = channels[id]],
            IF channels[id] = None THEN "ShellNotFound"
            ELSE IF ok THEN "Ok" ELSE "IoError")
  /\ UNCHANGED <<regs, tp, ch, nextC, ka, tunnelVars>>
  /\ UNCHANGED ioVars

WriteToShell(id, ok) == ShellCall("write_to_shell", id, ok)

ResizePty(id, ok) == ShellCall("resize_pty", id, ok)

\* ---------------------------------------------------------------- disconnect
\* Faulty variant of DisconnectResult: a sub-error is propagated with `?`.
DisconnectResultPropagate(subError) == IF subError THEN "IoError" ELSE "Ok"

\* What disconnect returns: every sub-error is bound to `_`.
DisconnectResult(subError) == "Ok"

Disconnected(t) == [tp EXCEPT ![t].disc = TRUE]

\* disconnect, lines 401-406: drop and disconnect the file-transfer transport
DisconnectStart(id, ok) ==
  /\ CanStart(Main)
  /\ sftp_sessions' = [sftp_sessions EXCEPT ![id] = None]
  /\ tp' = IF sftp_sessions[id] = None THEN tp ELSE Disconnected(sftp_sessions[id])
  /\ thr' = [th \in Threads |->
               IF th = Main
                 THEN [Begin(Main, "disconnect", id, "d_chan")
                         EXCEPT !.fail = IF sftp_sessions[id] /= None /\ ~ok
                                         THEN "sftp" ELSE "none"]
                 ELSE Overlapped(th, id)]
  /\ UNCHANGED <<sessions, channels, connections, forwards, ch, nextC,
                 ka, tunnelVars>>
  /\ Silent
  /\ UNCHANGED ioVars

\* Faulty variant of DisconnectChannel: the channel is neither removed nor
\* closed.
DisconnectChannelSkipped(ok) ==
  /\ thr[Main].pc = "d_chan"
  /\ thr' = [thr EXCEPT ![Main].pc = "d_sess"]
  /\ UNCHANGED <<regs, tp, ch, nextC, ka, tunnelVars>>
  /\ Silent
  /\ UNCHANGED ioVars

\* Faulty variant of DisconnectChannel: channels.clear() instead of
\* channels.remove(session_id), every channel being closed.
DisconnectChannelClear(ok) ==
  /\ thr[Main].pc = "d_chan"
  /\ channels' = [i \in Ids |-> None]
  /\ ch' = [c \in Channels |->
              IF \E i \in Ids : channels[i] = c THEN [ch[c] EXCEPT !.closed = TRUE]
              ELSE ch[c]]
  /\ thr' = [thr EXCEPT ![Main].pc = "d_sess",
                        ![Main].fail = IF channels[thr[Main].id] /= None /\ ~ok
                                       THEN "close" ELSE @]
  /\ UNCHANGED <<sessions, sftp_sessions, connections, forwards, tp, nextC, ka, tunnelVars>>
  /\ Silent
  /\ UNCHANGED ioVars

\* disconnect, lines 409-415: drop the channel, close it, wait for the close
DisconnectChannel(ok) ==
  /\ thr[Main].pc = "d_chan"
  /\ LET id == thr[Main].id
         c == channels[id] IN
       /\ channels' = [channels EXCEPT ![id] = None]
       /\ ch' = IF c = None THEN ch ELSE [ch EXCEPT ![c].closed = TRUE]
       /\ thr' = [thr EXCEPT ![Main].pc = "d_sess",
                             ![Main].fail = IF c /= None /\ ~ok THEN "close" ELSE @]
  /\ UNCHANGED <<sessions, sftp_sessions, connections, forwards, tp, nextC, ka, tunnelVars>>
  /\ Silent
  /\ UNCHANGED ioVars

\* disconnect, lines 418-423: drop and disconnect the shell transport
DisconnectSession(ok) ==
  /\ thr[Main].pc = "d_sess"
  /\ SessionsLockFree
  /\ LET id == thr[Main].id
         t == sessions[id] IN
       /\ sessions' = [sessions EXCEPT ![id] = None]
       /\ tp' = IF t = None THEN tp ELSE Disconnected(t)
       /\ thr' = [thr EXCEPT ![Main].pc = "d_conn",
                             ![Main].fail = IF t /= None /\ ~ok THEN "shell" ELSE @]
  /\ UNCHANGED <<channels, sftp_sessions, connections, forwards, ch,
                 nextC, ka, tunnelVars>>
  /\ Silent
  /\ UNCHANGED ioVars

\* Faulty variant of DisconnectConn: the tunnel registered under the same id
\* is dropped from the tunnel registry as well.
DisconnectConnForward ==
  /\ thr[Main].pc = "d_conn"
  /\ connections' = [connections EXCEPT ![thr[Main].id] = FALSE]
  /\ forwards' = [forwards EXCEPT ![thr[Main].id] = None]
  /\ Return(Main, thr[Main], DisconnectResult(thr[Main].fail /= "none"))
  /\ UNCHANGED <<sessions, channels, sftp_sessions, tp, ch, nextC, ka, tunnelVars>>
  /\ UNCHANGED ioVars

\* disconnect, lines 426-429: drop the descriptor, Ok(())
DisconnectConn ==
  /\ thr[Main].pc = "d_conn"
  /\ connections' = [connections EXCEPT ![thr[Main].id] = FALSE]
  /\ Return(Main, thr[Main], DisconnectResult(thr[Main].fail /= "none"))
  /\ UNCHANGED <<sessions, channels, sftp_sessions, forwards, tp, ch,
                 nextC, ka, tunnelVars>>
  /\ UNCHANGED ioVars

\* ---------------------------------------------------------------- get_or_create_sftp
\* Faulty variant of SftpBlocking: the new transport is left non-blocking.
SftpBlockingOff == FALSE

\* get_or_create_sftp, line 503: sess.set_blocking(true)
SftpBlocking == TRUE

\* get_or_create_sftp, lines 480-486: a cached transport is reused only if it
\* still reports authenticated().
CachedValid(id) ==
  /\ sftp_sessions[id] /= None
  /\ tp[sftp_sessions[id]].auth

RunPc(op) == IF op = "execute" THEN "e_run" ELSE "s_run"

\* get_or_create_sftp, lines 479-489, as the first step of `op` on thread th
SftpLookup(th, op, id) ==
  /\ CanStart(th)
  /\ thr' = [thr EXCEPT ![th] =
               IF CachedValid(id)
                 THEN [Begin(th, op, id, RunPc(op)) EXCEPT !.t = sftp_sessions[id]]
                 ELSE Begin(th, op, id, "g_create")]
  /\ UNCHANGED <<regs, tp, ch, nextC, ka, tunnelVars>>
  /\ Silent
  /\ UNCHANGED ioVars

\* get_or_create_sftp, lines 492-506: read the descriptor, authenticate a new
\* transport, force blocking mode
SftpCreate(th, ok) ==
  /\ thr[th].pc = "g_create"
  /\ IF ~connections[thr[th].id]
       THEN /\ Return(th, thr[th], "ConnInfoNotFound")
            /\ UNCHANGED tp
       ELSE IF CanCreate("sftp", ok)
         THEN /\ tp' = [tp EXCEPT ![Fresh("sftp")] =
                          [NewTransport("sftp", NoId, "none")
                             EXCEPT !.blocking = SftpBlocking]]
              /\ thr' = [thr EXCEPT ![th].pc = "g_insert",
                                    ![th].t = Fresh("sftp")]
              /\ Silent
         ELSE /\ Return(th, thr[th], "AuthError")
              /\ UNCHANGED tp
  /\ UNCHANGED <<regs, ch, nextC, ka, tunnelVars>>
  /\ UNCHANGED ioVars

\* get_or_create_sftp, lines 509-512: cache the new transport and return it
SftpInsert(th) ==
  /\ thr[th].pc = "g_insert"
  /\ sftp_sessions' = [sftp_sessions EXCEPT ![thr[th].id] = thr[th].t]
  /\ thr' = [thr EXCEPT ![th].pc = RunPc(thr[th].op)]
  /\ UNCHANGED <<sessions, channels, connections, forwards, tp, ch,
                 nextC, ka, tunnelVars>>
  /\ Silent
  /\ UNCHANGED ioVars

\* ---------------------------------------------------------------- execute_command
\* execute_command, line 438 of the first pass of `for attempt in 0..2`
ExecuteStart(id) == SftpLookup(Main, "execute", id)

ExecSteps == {"channel", "exec", "read", "wait"}

\* execute_command, lines 440-465.  `res` is "ok" or the step that failed.
\* Lines 440-449 are a plain block expression, so each `?` inside it returns
\* from execute_command itself: `result` is only ever bound to Ok(output), and
\* the Err arm of lines 453-460 (drop the cached transport, go round the loop
\* once more) is never entered.
ExecRun(res) ==
  /\ thr[Main].pc = "e_run"
  /\ LET rec == [thr[Main] EXCEPT !.n = @ + 1,
                                  !.fail = IF res = "ok" THEN "none" ELSE res] IN
       Return(Main, rec, IF res = "ok" THEN "Ok" ELSE "IoError")
  /\ UNCHANGED <<regs, tp, ch, nextC, ka, tunnelVars>>
  /\ UNCHANGED ioVars

\* ---------------------------------------------------------------- sftp_*
\* sftp_list_dir, sftp_rename, sftp_chmod, sftp_delete, sftp_mkdir,
\* sftp_download_file, sftp_upload_file: get_or_create_sftp(session_id)?
SftpStart(th, id) ==
  /\ th \in Workers
  /\ SftpLookup(th, "sftp", id)

\* the rest of an sftp_* call: lock the transport, sess.sftp(), the request
SftpRun(th, ok) ==
  /\ thr[th].pc = "s_run"
  /\ Return(th, [thr[th] EXCEPT !.fail = IF ok THEN "none" ELSE "sftp"],
            IF ok THEN "Ok" ELSE "IoError")
  /\ UNCHANGED <<regs, tp, ch, nextC, ka, tunnelVars>>
  /\ UNCHANGED ioVars

\* The remote side or the network drops a file-transfer transport: from then
\* on authenticated() is false.  (Only get_or_create_sftp reads it.)
TransportDrop(t) ==
  /\ tp[t].role = "sftp"
  /\ tp[t].auth
  /\ tp' = [tp EXCEPT ![t].auth = FALSE]
  /\ UNCHANGED <<regs, ch, nextC, ka, tunnelVars, thr>>
  /\ Silent
  /\ UNCHANGED ioVars

\* ---------------------------------------------------------------- keepalive
\* spawn_keepalive_for_session, lines 243-248: leave once the id is no key
KaSessionCheck(t) ==
  /\ ka[t] = "check"
  /\ tp[t].role = "shell"
  /\ SessionsLockFree
  /\ ka' = [ka EXCEPT ![t] = IF sessions[tp[t].id] = None THEN "exited" ELSE "send"]
  /\ UNCHANGED <<regs, tp, ch, nextC, tunnelVars, thr>>
  /\ Silent
  /\ UNCHANGED ioVars

\* spawn_keepalive_for_forward, lines 275-277: leave once the stop flag is set
KaForwardCheck(t) ==
  /\ ka[t] = "check"
  /\ tp[t].role = "fwd"
  /\ ka' = [ka EXCEPT ![t] = IF stop[t] THEN "exited" ELSE "send"]
  /\ UNCHANGED <<regs, tp, ch, nextC, tunnelVars, thr>>
  /\ Silent
  /\ UNCHANGED ioVars

MaxWait == 61          \* longest delay keepalive_send advises

\* lines 255 and 284: the delay taken after keepalive_send fails with EAGAIN
EagainWait == 1

\* lines 262 and 291: the sleep for an advisory of zero, and the longest sleep
ZeroAdvisorySleep == 5
LongestSleep == 60

Min(a, b) == IF a <= b THEN a ELSE b
Max(a, b) == IF a >= b THEN a ELSE b

\* Faulty variant of SleepSecs: the advisory is clamped into 5..60.
SleepSecsClamped(wait) == Min(Max(wait, ZeroAdvisorySleep), LongestSleep)

\* lines 262 and 291: if wait == 0 { 5 } else { wait.min(60) }
SleepSecs(wait) ==
  IF wait = 0 THEN ZeroAdvisorySleep ELSE Min(wait, LongestSleep)

\* lines 249-263 and 278-292: keepalive_send, then sleep; a hard error ends
\* the driver, EAGAIN does not.  `wait` is the delay keepalive_send advises
\* when it succeeds (`res` = "ok").
KaSend(t, res, wait) ==
  /\ ka[t] = "send"
  /\ ka' = [ka EXCEPT ![t] = IF res = "hard" THEN "exited" ELSE "check"]
  /\ nap' = IF res = "hard" THEN nap
            ELSE LET w == IF res = "eagain" THEN EagainWait ELSE wait IN
                   [t |-> t, res |-> res, wait |-> w, secs |-> SleepSecs(w)]
  /\ UNCHANGED <<regs, tp, ch, nextC, tunnelVars, thr>>
  /\ Silent
  /\ UNCHANGED <<pipe, socks, term, dir, login, ptyVars, lockVars>>

\* ---------------------------------------------------------------- start_forward
\* Faulty variant of StartForwardCheck: the registry is not consulted.
StartForwardUnchecked(th, id) ==
  /\ th \in Workers
  /\ CanStart(th)
  /\ thr' = [thr EXCEPT ![th] = Begin(th, "start_forward", id, "f_auth")]
  /\ Silent
  /\ UNCHANGED <<regs, tp, ch, nextC, ka, tunnelVars>>
  /\ UNCHANGED ioVars

\* start_forward, lines 706-711
StartForwardCheck(th, id) ==
  /\ th \in Workers
  /\ CanStart(th)
  /\ IF forwards[id] /= None
       THEN Return(th, Begin(th, "start_forward", id, "idle"), "AlreadyRunning")
       ELSE /\ thr' = [thr EXCEPT ![th] = Begin(th, "start_forward", id, "f_auth")]
            /\ Silent
  /\ UNCHANGED <<regs, tp, ch, nextC, ka, tunnelVars>>
  /\ UNCHANGED ioVars

\* Faulty variant of StartForwardSetup: the handle is put in the registry as
\* soon as the transport is authenticated, before the listener is started.
StartForwardSetupEarly(th, kind, ok, cfgOk, bindOk) ==
  /\ thr[th].pc = "f_auth"
  /\ IF ~CanCreate("fwd", ok)
       THEN /\ Return(th, thr[th], "AuthError")
            /\ UNCHANGED <<tp, ka, stop, acc, forwards>>
       ELSE /\ tp' = [tp EXCEPT ![Fresh("fwd")] = NewTransport("fwd", NoId, kind)]
            /\ stop' = [stop EXCEPT ![Fresh("fwd")] = FALSE]
            /\ ka' = [ka EXCEPT ![Fresh("fwd")] = "check"]
            /\ forwards' = [forwards EXCEPT ![thr[th].id] = Fresh("fwd")]
            /\ IF cfgOk /\ bindOk
                 THEN /\ acc' = [acc EXCEPT ![Fresh("fwd")] = "check"]
                      /\ thr' = [thr EXCEPT ![th].pc = "f_insert",
                                            ![th].t = Fresh("fwd")]
                      /\ Silent
                 ELSE /\ Return(th, [thr[th] EXCEPT !.t = Fresh("fwd")],
                                IF ~cfgOk THEN "BindingMissing"
                                ELSE IF kind = "remote" THEN "ListenError"
                                ELSE "BindError")
                      /\ UNCHANGED acc
  /\ UNCHANGED <<sessions, channels, sftp_sessions, connections, ch, nextC, conn>>
  /\ UNCHANGED ioVars

\* start_forward, lines 713-738: authenticate the tunnel transport, make the
\* stop flag, spawn the keepalive driver, then check the bindings of `kind`
\* (cfgOk), bind or listen (bindOk) and spawn the accept loop.
StartForwardSetup(th, kind, ok, cfgOk, bindOk) ==
  /\ thr[th].pc = "f_auth"
  /\ IF ~CanCreate("fwd", ok)
       THEN /\ Return(th, thr[th], "AuthError")
            /\ UNCHANGED <<tp, ka, stop, acc>>
       ELSE /\ tp' = [tp EXCEPT ![Fresh("fwd")] = NewTransport("fwd", NoId, kind)]
            /\ stop' = [stop EXCEPT ![Fresh("fwd")] = FALSE]
            /\ ka' = [ka EXCEPT ![Fresh("fwd")] = "check"]
            /\ IF cfgOk /\ bindOk
                 THEN /\ acc' = [acc EXCEPT ![Fresh("fwd")] = "check"]
                      /\ thr' = [thr EXCEPT ![th].pc = "f_insert",
                                            ![th].t = Fresh("fwd")]
                      /\ Silent
                 ELSE /\ Return(th, [thr[th] EXCEPT !.t = Fresh("fwd")],
                                IF ~cfgOk THEN "BindingMissing"
                                ELSE IF kind = "remote" THEN "ListenError"
                                ELSE "BindError")
                      /\ UNCHANGED acc
  /\ UNCHANGED <<regs, ch, nextC, conn>>
  /\ UNCHANGED ioVars

\* start_forward, lines 740-748: forwards.insert(id, ForwardHandle), Ok
StartForwardInsert(th) ==
  /\ thr[th].pc = "f_insert"
  /\ forwards' = [forwards EXCEPT ![thr[th].id] = thr[th].t]
  /\ Return(th, thr[th], "Ok")
  /\ UNCHANGED <<sessions, channels, sftp_sessions, connections, tp, ch, nextC, ka, tunnelVars>>
  /\ UNCHANGED ioVars

\* ---------------------------------------------------------------- stop_forward
\* stop_forward, lines 752-755 and 763-765: forwards.remove(id)
StopForwardRemove(th, id) ==
  /\ th \in Workers
  /\ CanStart(th)
  /\ IF forwards[id] = None
       THEN /\ Return(th, Begin(th, "stop_forward", id, "idle"), "ForwardNotFound")
            /\ UNCHANGED forwards
       ELSE /\ forwards' = [forwards EXCEPT ![id] = None]
            /\ thr' = [thr EXCEPT ![th] =
                         [Begin(th, "stop_forward", id, "x_flag")
                            EXCEPT !.t = forwards[id]]]
            /\ Silent
  /\ UNCHANGED <<sessions, channels, sftp_sessions, connections, tp, ch, nextC, ka, tunnelVars>>
  /\ UNCHANGED ioVars

\* Faulty variant of StopForwardFlag: the stop flag is not stored.
StopForwardFlagSkipped(th) ==
  /\ thr[th].pc = "x_flag"
  /\ thr' = [thr EXCEPT ![th].pc = "x_disc"]
  /\ UNCHANGED <<regs, tp, ch, nextC, ka, stop, acc, conn>>
  /\ Silent
  /\ UNCHANGED ioVars

\* stop_forward, line 758: handle.stop.store(true)
StopForwardFlag(th) ==
  /\ thr[th].pc = "x_flag"
  /\ stop' = [stop EXCEPT ![thr[th].t] = TRUE]
  /\ thr' = [thr EXCEPT ![th].pc = "x_disc"]
  /\ UNCHANGED <<regs, tp, ch, nextC, ka, acc, conn>>
  /\ Silent
  /\ UNCHANGED ioVars

\* stop_forward, lines 759-762: disconnect the tunnel transport, Ok
StopForwardDisconnect(th, ok) ==
  /\ thr[th].pc = "x_disc"
  /\ tp' = Disconnected(thr[th].t)
  /\ Return(th, [thr[th] EXCEPT !.fail = IF ok THEN "none" ELSE "fwd"], "Ok")
  /\ UNCHANGED <<regs, ch, nextC, ka, tunnelVars>>
  /\ UNCHANGED ioVars

\* ---------------------------------------------------------------- accept loops
\* Top of every accept loop (lines 786-788, 829-831, 890-892)
AcceptCheck(t) ==
  /\ acc[t] = "check"
  /\ acc' = [acc EXCEPT ![t] = IF stop[t] THEN "exited" ELSE "accept"]
  /\ UNCHANGED <<regs, tp, ch, nextC, ka, stop, conn, thr>>
  /\ Silent
  /\ UNCHANGED ioVars

FreeSlot(t) == {k \in 1..MaxConns : conn[t][k].st = "none"}

\* A connection arrives: listener.accept() returns it and the loop spawns its
\* worker (lines 790-806, 833-861, 893-918).
AcceptConn(t) ==
  /\ acc[t] = "accept"
  /\ FreeSlot(t) /= {}
  /\ LET k == CHOOSE k \in FreeSlot(t) : \A j \in FreeSlot(t) : k <= j IN
       conn' = [conn EXCEPT ![t][k] = [st |-> "spawned", late |-> stop[t]]]
  /\ acc' = [acc EXCEPT ![t] = "check"]
  /\ UNCHANGED <<regs, tp, ch, nextC, ka, stop, thr>>
  /\ Silent
  /\ UNCHANGED ioVars

\* listener.accept() of a local or dynamic tunnel returns WouldBlock
\* (lines 808-810, 863-865): sleep 50 ms, next pass.
AcceptWouldBlock(t) ==
  /\ acc[t] = "accept"
  /\ tp[t].kind \in {"local", "dynamic"}
  /\ acc' = [acc EXCEPT ![t] = "check"]
  /\ UNCHANGED <<regs, tp, ch, nextC, ka, stop, conn, thr>>
  /\ Silent
  /\ UNCHANGED ioVars

\* accept fails: a local or dynamic loop breaks (lines 811, 866); a remote
\* loop breaks only if the stop flag is set, else sleeps 80 ms (lines 895-901).
AcceptError(t) ==
  /\ acc[t] = "accept"
  /\ acc' = [acc EXCEPT ![t] =
               IF tp[t].kind = "remote" /\ ~stop[t] THEN "check" ELSE "exited"]
  /\ UNCHANGED <<regs, tp, ch, nextC, ka, stop, conn, thr>>
  /\ Silent
  /\ UNCHANGED ioVars

\* The worker of an accepted connection (lines 794-806, 836-861, 905-918):
\* with the stop flag set it closes the connection at once; otherwise it
\* opens the far end (`ok`: SOCKS5 handshake, direct-tcpip channel or TCP
\* dial succeeded) and pipes, or closes the connection.
ConnWorker(t, k, ok) ==
  /\ conn[t][k].st = "spawned"
  /\ conn' = [conn EXCEPT ![t][k].st =
                IF stop[t] THEN "closed" ELSE IF ok THEN "piping" ELSE "closed"]
  /\ UNCHANGED <<regs, tp, ch, nextC, ka, stop, acc, thr>>
  /\ Silent
  /\ UNCHANGED ioVars

\* ---------------------------------------------------------------- text
\* String::from_utf8_lossy on a byte sequence, giving the code points of the
\* resulting String.  Bytes below 0x80 are ASCII; 0xC2..0xDF followed by a
\* continuation byte 0x80..0xBF is a two-byte character; a byte that cannot
\* start or continue a character at its place becomes U+FFFD.  (Defined for
\* bytes outside 0xE0..0xF4, the leads of longer characters.)
Replacement == 65533

RECURSIVE FromUtf8Lossy(_)
FromUtf8Lossy(bs) ==
  IF bs = <<>> THEN <<>>
  ELSE IF bs[1] < 128 THEN <<bs[1]>> \o FromUtf8Lossy(Tail(bs))
  ELSE IF /\ bs[1] \in 194..223
          /\ Len(bs) >= 2
          /\ bs[2] \in 128..191
    THEN <<((bs[1] - 192) * 64) + (bs[2] - 128)>> \o FromUtf8Lossy(Tail(Tail(bs)))
  ELSE <<Replacement>> \o FromUtf8Lossy(Tail(bs))

\* The UTF-8 bytes of a String given by its code points (up to U+FFFF).
RECURSIVE Utf8Bytes(_)
Utf8Bytes(cs) ==
  IF cs = <<>> THEN <<>>
  ELSE (IF cs[1] < 128 THEN <<cs[1]>>
        ELSE IF cs[1] < 2048 THEN <<192 + (cs[1] \div 64), 128 + (cs[1] % 64)>>
        ELSE <<224 + (cs[1] \div 4096), 128 + ((cs[1] \div 64) % 64), 128 + (cs[1] % 64)>>)
       \o Utf8Bytes(Tail(cs))

\* format!("{}", n) of an unsigned number: its decimal digits.
RECURSIVE Decimal(_)
Decimal(n) == IF n < 10 THEN <<48 + n>> ELSE Decimal(n \div 10) \o <<48 + (n % 10)>>

\* format!("{:02x}", b) of a byte: two lower-case hexadecimal digits.
HexDigit(h) == IF h < 10 THEN 48 + h ELSE 87 + h
Hex2(b) == <<HexDigit(b \div 16), HexDigit(b % 16)>>

\* ---------------------------------------------------------------- sftp_list_dir
\* sftp_list_dir, lines 515-581.  A name or a path is the sequence of its
\* characters' code points; an entry is its name and stat.is_dir().
Dot == <<46>>
DotDot == <<46, 46>>
Slash == <<47>>
Whitespace == {9, 10, 32}

\* str::trim
RECURSIVE TrimStart(_)
TrimStart(str) ==
  IF str /= <<>> /\ Head(str) \in Whitespace THEN TrimStart(Tail(str)) ELSE str

RECURSIVE TrimEnd(_)
TrimEnd(str) ==
  IF str /= <<>> /\ str[Len(str)] \in Whitespace
    THEN TrimEnd(SubSeq(str, 1, Len(str) - 1))
  ELSE str

Trim(str) == TrimEnd(TrimStart(str))

\* str::to_lowercase (letters A-Z; the other characters used here have no case)
ToLowercase(str) == [i \in 1..Len(str) |-> IF str[i] \in 65..90 THEN str[i] + 32 ELSE str[i]]

\* str::cmp: lexicographic
RECURSIVE StrCmp(_, _)
StrCmp(x, y) ==
  IF x = <<>> THEN (IF y = <<>> THEN "Equal" ELSE "Less")
  ELSE IF y = <<>> THEN "Greater"
  ELSE IF Head(x) < Head(y) THEN "Less"
  ELSE IF Head(x) > Head(y) THEN "Greater"
  ELSE StrCmp(Tail(x), Tail(y))

\* line 521
CleanPath(path) == IF Trim(path) = <<>> THEN Dot ELSE Trim(path)

\* Faulty variant of IsRoot: only "/" is taken for a root.
IsRootSlashOnly(clean) == clean = Slash

\* line 525
IsRoot(clean) == clean = Slash \/ clean = Dot \/ clean = <<>>

\* Faulty variant of Keep: nothing is filtered out.
KeepAll(e) == TRUE

\* lines 532-540: the filter of filter_map
Keep(e) == e.name /= <<>> /\ e.name /= Dot /\ e.name /= DotDot

\* lines 555-561
Parent == [name |-> DotDot, is_dir |-> TRUE]

\* Faulty variant of Cmp: names are compared as they are.
CmpCaseSensitive(a, b) ==
  IF a.name = DotDot THEN "Less"
  ELSE IF b.name = DotDot THEN "Greater"
  ELSE IF a.is_dir /\ ~b.is_dir THEN "Less"
  ELSE IF ~a.is_dir /\ b.is_dir THEN "Greater"
  ELSE StrCmp(a.name, b.name)

\* lines 564-578: the comparator of sort_by
Cmp(a, b) ==
  IF a.name = DotDot THEN "Less"
  ELSE IF b.name = DotDot THEN "Greater"
  ELSE IF a.is_dir /\ ~b.is_dir THEN "Less"
  ELSE IF ~a.is_dir /\ b.is_dir THEN "Greater"
  ELSE StrCmp(ToLowercase(a.name), ToLowercase(b.name))

\* slice::sort_by is a stable sort: an element goes before the first element
\* it is Less than, behind every element it is not Less than.
RECURSIVE InsertSorted(_, _)
InsertSorted(sorted, e) ==
  IF sorted = <<>> THEN <<e>>
  ELSE IF Cmp(e, sorted[Len(sorted)]) = "Less"
    THEN Append(InsertSorted(SubSeq(sorted, 1, Len(sorted) - 1), e), sorted[Len(sorted)])
  ELSE Append(sorted, e)

RECURSIVE SortBy(_)
SortBy(es) ==
  IF es = <<>> THEN <<>>
  ELSE InsertSorted(SortBy(SubSeq(es, 1, Len(es) - 1)), es[Len(es)])

\* what sftp_list_dir(_, path) returns when the server lists `listing`
ListDir(path, listing) ==
  LET kept == SelectSeq(listing, Keep)
      output == IF ~IsRoot(CleanPath(path)) THEN <<Parent>> \o kept ELSE kept
  IN SortBy(output)

\* The paths a caller passes and the listings a server gives.
MaxPath == 2           \* characters of a path
MaxEntries == 3        \* entries a server lists
PathChars == {32, 46, 47, 100}
Paths == UNION {[1..n -> PathChars] : n \in 0..MaxPath}
File(name) == [name |-> name, is_dir |-> FALSE]
Dir(name) == [name |-> name, is_dir |-> TRUE]
EntryPool ==
  {Dir(Dot), Dir(DotDot), File(<<>>), File(<<97>>), File(<<65>>), File(<<66>>), Dir(<<100>>)}
ExampleListing ==
  <<Dir(Dot), Dir(DotDot), File(<<97>>), File(<<66>>), File(<<122>>), Dir(<<100>>)>>
\* The remote directory changes: an entry is added, or it becomes the
\* directory of the example.
NextListings(listing) ==
  {Append(listing, e) : e \in IF Len(listing) < MaxEntries THEN EntryPool ELSE {}}
  \cup {ExampleListing}

RemoteChange(listing) ==
  /\ listing \in NextListings(dir.listing) \ {dir.listing}
  /\ dir' = [NoDir EXCEPT !.listing = listing]
  /\ UNCHANGED <<regs, tp, ch, nextC, ka, tunnelVars, thr, pipe, socks, term, envVars>>
  /\ Silent

\* The rest of an sftp_list_dir call after get_or_create_sftp, lines 517-580:
\* sess.sftp() and readdir (`ok`), then filter, parent entry and sort.
SftpListDir(th, path, ok) ==
  /\ thr[th].pc = "s_run"
  /\ Return(th, [thr[th] EXCEPT !.fail = IF ok THEN "none" ELSE "sftp"],
            IF ok THEN "Ok" ELSE "IoError")
  /\ dir' = IF ~ok THEN dir
            ELSE LET again == dir.calls > 0 /\ dir.path = path IN
                 [path |-> path, listing |-> dir.listing,
                  out |-> ListDir(path, dir.listing),
                  prev |-> IF again THEN dir.out ELSE <<>>,
                  calls |-> IF again THEN 2 ELSE 1]
  /\ UNCHANGED <<regs, tp, ch, nextC, ka, tunnelVars, pipe, socks, term, envVars>>

\* ---------------------------------------------------------------- effective_username
\* create_authenticated_session, lines 169-181.  `user` and `usernameVar` are
\* the environment variables USER and USERNAME.
Root == <<114, 111, 111, 116>>

\* lines 170-172, 174-176: std::env::var(..).ok().filter(|name| !name.trim().is_empty())
EnvName(v) == IF v.set /\ Trim(v.val) /= <<>> THEN v ELSE Unset

\* Faulty variant of FromEnv: USERNAME is not consulted.
FromEnvUserOnly(user, usernameVar) ==
  IF EnvName(user).set THEN user.val ELSE Root

\* lines 170-178
FromEnv(user, usernameVar) ==
  IF EnvName(user).set THEN user.val
  ELSE IF EnvName(usernameVar).set THEN usernameVar.val
  ELSE Root

EffectiveUsername(username, user, usernameVar) ==
  IF Trim(username) = <<>> THEN FromEnv(user, usernameVar) ELSE Trim(username)

\* The user names of a descriptor and the values of an environment variable.
MaxUser == 2           \* characters of a user name
UserChars == {32, 98}
UserNames == UNION {[1..n -> UserChars] : n \in 0..MaxUser}
EnvValues == {Unset} \cup {[set |-> TRUE, val |-> v] : v \in UserNames}

\* connect with a password descriptor whose username is given: the name
\* handed to userauth_password (line 185) is recorded when that call is made.
\* USER and USERNAME are those of the process (login.user, login.usernameVar).
ConnectAs(th, id, username, failAt) ==
  /\ th \in Workers
  /\ CanStart(th)
  /\ LET user == login.user
         usernameVar == login.usernameVar
         r == CreateAuthenticatedSession("password", failAt)
         rec == [Begin(th, "connect", id, "idle")
                   EXCEPT !.cas = [auth |-> "password", net |-> r.net]] IN
       /\ IF r.ret = "Ok"
            THEN /\ Unused("shell") /= {}
                 /\ tp' = [tp EXCEPT ![Fresh("shell")] = NewTransport("shell", id, "none")]
                 /\ thr' = [thr EXCEPT ![th] =
                              [rec EXCEPT !.pc = "c_conn", !.t = Fresh("shell")]]
                 /\ Silent
            ELSE /\ Return(th, rec, r.ret)
                 /\ UNCHANGED tp
       /\ login' = IF failAt \in {"none", "auth"}
                     THEN [username |-> username, user |-> user,
                           usernameVar |-> usernameVar,
                           sent |-> EffectiveUsername(username, user, usernameVar),
                           calls |-> 1]
                   ELSE login
  /\ UNCHANGED <<regs, ch, nextC, ka, tunnelVars, pipe, socks, term, dir, ptyVars, nap, lockVars>>

\* ---------------------------------------------------------------- mutexes
\* Every operation as the sequence of lock() calls and guard drops it makes
\* when everything it looks up is registered; the I/O of an operation is done
\* between the lock and the drop of the handle's mutex.
Acq(m) == <<"acq", m>>
Rel(m) == <<"rel", m>>

\* lib.rs: a synchronous command holds AppState.ssh_manager for the whole
\* call (lines 522, 535, 590, 602); an asynchronous one locks it to clone the
\* manager and runs the call on a blocking-pool thread (lines 492, 507, 625,
\* 637, 656).
Sync(body) == <<Acq("dispatcher")>> \o body \o <<Rel("dispatcher")>>
Async(body) == <<Acq("dispatcher"), Rel("dispatcher")>> \o body

\* connect, lines 304-311
ConnectLocks ==
  <<Acq("connections"), Rel("connections"), Acq("sessions"), Rel("sessions")>>

\* open_shell, lines 319-337: the sessions guard lives to the return
OpenShellLocks ==
  <<Acq("sessions"), Acq("shell_transport"), Rel("shell_transport"),
    Acq("channels"), Rel("channels"), Rel("sessions")>>

\* write_to_shell, lines 387-396, and resize_pty, lines 650-658
ShellCallLocks ==
  <<Acq("channels"), Acq("channel"), Rel("channel"), Rel("channels")>>

\* Faulty variant of DisconnectLocks: the channels guard is not dropped
\* before the session registry is locked.
DisconnectLocksNoDrop ==
  <<Acq("sftp_sessions"), Acq("sftp_transport"), Rel("sftp_transport"),
    Rel("sftp_sessions"),
    Acq("channels"), Acq("channel"), Rel("channel"),
    Acq("sessions"), Acq("shell_transport"), Rel("shell_transport"),
    Rel("sessions"), Rel("channels"),
    Acq("connections"), Rel("connections")>>

\* disconnect, lines 401-427
DisconnectLocks ==
  <<Acq("sftp_sessions"), Acq("sftp_transport"), Rel("sftp_transport"),
    Rel("sftp_sessions"),
    Acq("channels"), Acq("channel"), Rel("channel"), Rel("channels"),
    Acq("sessions"), Acq("shell_transport"), Rel("shell_transport"),
    Rel("sessions"),
    Acq("connections"), Rel("connections")>>

\* get_or_create_sftp, lines 480-486, a valid transport being cached
SftpCachedLocks ==
  <<Acq("sftp_sessions"), Acq("sftp_transport"), Rel("sftp_transport"),
    Rel("sftp_sessions")>>

\* get_or_create_sftp, lines 480-510, the cached transport being invalid
SftpCreateLocks ==
  SftpCachedLocks \o
  <<Acq("connections"), Rel("connections"),
    Acq("sftp_sessions"), Rel("sftp_sessions")>>

\* execute_command, lines 441-449, and sftp_list_dir, lines 517-581: the
\* request under the mutex of the transport
SftpRunLocks == <<Acq("sftp_transport"), Rel("sftp_transport")>>

\* start_forward of a remote tunnel, lines 706-748 and 882-886
StartForwardLocks ==
  <<Acq("forwards"), Rel("forwards"),
    Acq("tunnel_transport"), Rel("tunnel_transport"),
    Acq("forwards"), Rel("forwards")>>

\* stop_forward, lines 752-761
StopForwardLocks ==
  <<Acq("forwards"), Rel("forwards"),
    Acq("tunnel_transport"), Rel("tunnel_transport")>>

\* One pass of the reader's loop, lines 347-372
ReaderLocks == <<Acq("channel"), Rel("channel")>>

\* One pass of the session keepalive driver, lines 243-260
KaSessionLocks ==
  <<Acq("sessions"), Rel("sessions"),
    Acq("shell_transport"), Rel("shell_transport")>>

\* One pass of the tunnel keepalive driver, lines 278-289
KaForwardLocks == <<Acq("tunnel_transport"), Rel("tunnel_transport")>>

LockOps ==
  [connect |-> Async(ConnectLocks),
   open_shell |-> Async(OpenShellLocks),
   write_to_shell |-> Sync(ShellCallLocks),
   resize_pty |-> Sync(ShellCallLocks),
   disconnect |-> Sync(DisconnectLocks),
   execute |-> Sync(SftpCachedLocks \o SftpRunLocks),
   execute_new |-> Sync(SftpCreateLocks \o SftpRunLocks),
   sftp |-> Async(SftpCachedLocks \o SftpRunLocks),
   sftp_new |-> Async(SftpCreateLocks \o SftpRunLocks),
   start_forward |-> Async(StartForwardLocks),
   stop_forward |-> Async(StopForwardLocks),
   reader |-> ReaderLocks,
   ka_session |-> KaSessionLocks,
   ka_forward |-> KaForwardLocks]

\* The operations each thread runs.
OpsOf(a) ==
  CASE a = "main" -> {"write_to_shell", "resize_pty", "disconnect",
                      "execute", "execute_new"}
    [] a = "worker" -> {"connect", "open_shell", "sftp", "sftp_new",
                        "start_forward", "stop_forward"}
    [] OTHER -> {a}

LockFrame ==
  /\ UNCHANGED <<regs, tp, ch, nextC, ka, tunnelVars, thr, last, pipe, socks,
                 term, dir, login, ptyVars, nap>>

\* Thread a starts operation op (a loop starts its next pass).
LockBegin(a, op) ==
  /\ lpc[a] = Resting
  /\ op \in OpsOf(a)
  /\ lpc' = [lpc EXCEPT ![a] = [op |-> op, at |-> 1]]
  /\ UNCHANGED held
  /\ LockFrame

\* The call thread a is about to make.
Pending(a) == LockOps[lpc[a].op][lpc[a].at]

\* Thread a is in an operation and the mutex it asks for is held.
Blocked(a) ==
  /\ lpc[a] /= Resting
  /\ Pending(a)[1] = "acq"
  /\ held[Pending(a)[2]] /= NoOwner

\* Thread a makes its next call: lock() returns once the mutex is free (a
\* std Mutex is not reentrant), a drop frees the mutex; after the last call
\* the operation returns.
LockStep(a) ==
  /\ lpc[a] /= Resting
  /\ ~Blocked(a)
  /\ held' = [held EXCEPT ![Pending(a)[2]] =
                 IF Pending(a)[1] = "acq" THEN a ELSE NoOwner]
  /\ lpc' = [lpc EXCEPT ![a] =
                IF lpc[a].at = Len(LockOps[lpc[a].op]) THEN Resting
                ELSE [@ EXCEPT !.at = @ + 1]]
  /\ LockFrame

\* ---------------------------------------------------------------- local pty
\* LocalPtyManager (local_pty.rs).  local_open_shell runs on a blocking-pool
\* thread with a clone of the manager; local_disconnect runs on the
\* dispatcher thread.
SshVars == <<regs, tp, ch, nextC, ka, tunnelVars, pipe, socks, term, dir, login, nap, lockVars>>

\* disconnect, lines 134-144, under the guard of the registry: remove the
\* session of id, kill its child and wait on it.
Removed(id) == [local_sessions EXCEPT ![id] = None]

Killed(id) ==
  [c \in Children |->
     IF c = local_sessions[id]
       THEN [child[c] EXCEPT !.st = "killed", !.reg = "out"]
       ELSE child[c]]

\* open_shell, line 39: let _ = self.disconnect(session_id)
LocalOpenStart(th, id) ==
  /\ th \in Workers
  /\ CanStart(th)
  /\ local_sessions' = Removed(id)
  /\ child' = Killed(id)
  /\ thr' = [thr EXCEPT ![th] = Begin(th, "local_open_shell", id, "lo_spawn")]
  /\ Silent
  /\ UNCHANGED SshVars

\* lines 41-62: openpty and spawn_command (`res` = "spawn" if one of them
\* fails), then try_clone_reader and take_writer (`res` = "clone" if one of
\* them fails: the child is dropped as it is).
FreeChild == CHOOSE c \in Children : child[c].st = "none" /\ \A d \in 1..(c - 1) : child[d].st /= "none"

LocalOpenSpawn(th, res) ==
  /\ thr[th].pc = "lo_spawn"
  /\ IF res = "spawn"
       THEN /\ Return(th, thr[th], "IoError")
            /\ UNCHANGED child
     ELSE /\ \E c \in Children : child[c].st = "none"
          /\ child' = [child EXCEPT ![FreeChild].st = "running"]
          /\ IF res = "clone"
               THEN Return(th, [thr[th] EXCEPT !.c = FreeChild], "IoError")
             ELSE /\ thr' = [thr EXCEPT ![th] = [@ EXCEPT !.pc = "lo_insert", !.c = FreeChild]]
                  /\ Silent
  /\ UNCHANGED <<SshVars, local_sessions>>

\* lines 64-73: sessions.insert(session_id, ..) drops the session the map
\* held under that id, if any; then the reader is spawned and Ok returned.
LocalOpenInsert(th) ==
  /\ thr[th].pc = "lo_insert"
  /\ local_sessions' = [local_sessions EXCEPT ![thr[th].id] = thr[th].c]
  /\ child' = [c \in Children |->
                 IF c = thr[th].c THEN [child[c] EXCEPT !.reg = "in", !.reader = "run"]
                 ELSE IF c = local_sessions[thr[th].id] THEN [child[c] EXCEPT !.reg = "out"]
                 ELSE child[c]]
  /\ Return(th, thr[th], "Ok")
  /\ UNCHANGED SshVars

MaxReads == 2          \* reads of one reader that return data

\* The reader thread of the local shell, lines 76-97: one pass of its loop.
\* `res` is what reader.read returned: "data" (n > 0), "eof" (Ok(0)),
\* "interrupted", or "error" (any other error).  Data is emitted as one
\* terminal-output event; the thread ends after the loop, emitting nothing.
LocalReadResults == {"data", "eof", "interrupted", "error"}

\* Faulty variant of LocalReaderEmits: one terminal-disconnected event is
\* emitted when the loop is left.
LocalReaderEmitsDisconnected(res) == IF res \in {"eof", "error"} THEN 1 ELSE 0

\* lines 92-97: nothing follows the loop
LocalReaderEmits(res) == 0

LocalReaderStep(c, res) ==
  /\ child[c].reader = "run"
  /\ res = "data" => child[c].outs < MaxReads
  /\ child' = [child EXCEPT ![c] =
                 [@ EXCEPT !.outs = IF res = "data" THEN @ + 1 ELSE @,
                           !.reader = IF res \in {"eof", "error"} THEN "done" ELSE "run",
                           !.last = IF res \in {"eof", "error"} THEN res ELSE @,
                           !.events = @ + LocalReaderEmits(res)]]
  /\ UNCHANGED <<SshVars, local_sessions, thr>>
  /\ Silent

\* local_disconnect (lib.rs 580-586): disconnect on the dispatcher thread
LocalDisconnect(id) ==
  /\ CanStart(Main)
  /\ local_sessions' = Removed(id)
  /\ child' = Killed(id)
  /\ Return(Main, [Begin(Main, "local_disconnect", id, "idle")
                     EXCEPT !.c = local_sessions[id]], "Ok")
  /\ UNCHANGED SshVars

\* ---------------------------------------------------------------- socks5_handshake
\* socks5_handshake, lines 944-998, on the bytes `input` the client sends
\* (read_exact fails when fewer bytes come than it asks for).  The result is
\* the bytes written to the client, and either the target (host, port) or
\* the error.
SocksErr(reply, err) == [reply |-> reply, err |-> err, host |-> <<>>, port |-> 0]

RejectMethod == <<5, 255>>
AcceptMethod == <<5, 0>>
RejectCommand == <<5, 7, 0, 1, 0, 0, 0, 0, 0, 0>>
ReplySucceeded == <<5, 0, 0, 1, 0, 0, 0, 0, 0, 0>>
ReplyFailure == <<5, 1, 0, 1, 0, 0, 0, 0, 0, 0>>

\* lines 969-992: the host of an address of type atyp starting at input[at],
\* and the index of the first byte after it (0 if read_exact fails)
SocksHost(input, atyp, at) ==
  IF atyp = 1
    THEN IF Len(input) < at + 3 THEN [next |-> 0, host |-> <<>>]
         ELSE [next |-> at + 4,
               host |-> Decimal(input[at]) \o <<46>> \o Decimal(input[at + 1]) \o <<46>>
                        \o Decimal(input[at + 2]) \o <<46>> \o Decimal(input[at + 3])]
  ELSE IF atyp = 3
    THEN IF Len(input) < at \/ Len(input) < at + input[at]
           THEN [next |-> 0, host |-> <<>>]
         ELSE [next |-> at + 1 + input[at],
               host |-> FromUtf8Lossy(SubSeq(input, at + 1, at + input[at]))]
  ELSE IF Len(input) < at + 15 THEN [next |-> 0, host |-> <<>>]
       ELSE [next |-> at + 16,
             host |-> LET seg(i) == Hex2(input[at + (2 * i)]) \o Hex2(input[at + (2 * i) + 1]) IN
                        seg(0) \o <<58>> \o seg(1) \o <<58>> \o seg(2) \o <<58>> \o seg(3)
                        \o <<58>> \o seg(4) \o <<58>> \o seg(5) \o <<58>> \o seg(6)
                        \o <<58>> \o seg(7)]

\* line 996: u16::from_be_bytes
PortOfLittleEndian(hi, lo) == (lo * 256) + hi

PortOf(hi, lo) == (hi * 256) + lo

Socks5Handshake(input) ==
  IF Len(input) < 2 THEN SocksErr(<<>>, "io")                       \* line 949
  ELSE IF input[1] /= 5 THEN SocksErr(<<>>, "version")              \* lines 950-952
  ELSE LET n == input[2] IN
    IF Len(input) < 2 + n THEN SocksErr(<<>>, "io")                 \* line 955
    ELSE IF \A i \in 3..(2 + n) : input[i] /= 0                     \* lines 956-959
      THEN SocksErr(RejectMethod, "method")
    ELSE IF Len(input) < 6 + n THEN SocksErr(AcceptMethod, "io")    \* lines 960-963
    ELSE IF input[3 + n] /= 5 \/ input[4 + n] /= 1                  \* lines 964-967
      THEN SocksErr(AcceptMethod \o RejectCommand, "command")
    ELSE IF input[6 + n] \notin {1, 3, 4}                           \* line 991
      THEN SocksErr(AcceptMethod, "address")
    ELSE LET h == SocksHost(input, input[6 + n], 7 + n) IN
      IF h.next = 0 \/ Len(input) < h.next + 1                      \* lines 994-995
        THEN SocksErr(AcceptMethod, "io")
      ELSE [reply |-> AcceptMethod, err |-> "none", host |-> h.host,
            port |-> PortOf(input[h.next], input[h.next + 1])]        \* lines 996-997

\* The inputs of a SOCKS5 client: a preamble with its method list, then a
\* request, cut off after any number of bytes.
MaxMethods == 2        \* methods a client offers
MaxName == 2           \* bytes of a domain name
MethodLists == UNION {[1..n -> {0, 2}] : n \in 0..MaxMethods}
NameBytes == {97, 255}
Names == UNION {[1..n -> NameBytes] : n \in 0..MaxName}
Preambles == {<<v, Len(ms)>> \o ms : v \in {4, 5}, ms \in MethodLists}
Addresses ==
  {<<1, 10, 0, 0, 1>>, <<4, 32, 1, 13, 184, 0, 0, 0, 0, 0, 0, 0, 0, 0, 0, 0, 1>>, <<9>>}
  \cup {<<3, Len(nm)>> \o nm : nm \in Names}
Ports == {<<0, 80>>, <<1, 187>>}
Requests == {<<v, c, 0>> \o a \o p : v \in {4, 5}, c \in {1, 2}, a \in Addresses, p \in Ports}
SocksMessages == {g \o r : g \in Preambles, r \in Requests}
SocksInputs == UNION {{SubSeq(x, 1, m) : m \in 0..Len(x)} : x \in SocksMessages}

\* Faulty variant of ConnectReply: success is announced before the channel
\* is opened.
ConnectReplyEarly(chanOk) == ReplySucceeded

\* lines 849-858: the reply written once open_direct_tcpip has returned
ConnectReply(chanOk) == IF chanOk THEN ReplySucceeded ELSE ReplyFailure

\* The worker of a connection accepted by a dynamic tunnel, lines 836-861:
\* stop flag, handshake, open_direct_tcpip(host, port) (`chanOk`), reply, pipe.
SocksWorker(t, k, input, chanOk) ==
  /\ conn[t][k].st = "spawned"
  /\ tp[t].kind = "dynamic"
  /\ LET hs == Socks5Handshake(input) IN
       IF stop[t]
         THEN /\ conn' = [conn EXCEPT ![t][k].st = "closed"]
              /\ socks' = [socks EXCEPT ![t][k] =
                             [NoSocks EXCEPT !.input = input, !.end = "stopped"]]
       ELSE IF hs.err /= "none"
         THEN /\ conn' = [conn EXCEPT ![t][k].st = "closed"]
              /\ socks' = [socks EXCEPT ![t][k] =
                             [input |-> input, reply |-> hs.reply, target |-> <<>>,
                              end |-> "rejected"]]
       ELSE /\ conn' = [conn EXCEPT ![t][k].st = IF chanOk THEN "piping" ELSE "closed"]
            /\ socks' = [socks EXCEPT ![t][k] =
                           [input |-> input,
                            reply |-> hs.reply \o ConnectReply(chanOk),
                            target |-> <<hs.host, hs.port>>,
                            end |-> IF chanOk THEN "piping" ELSE "refused"]]
  /\ UNCHANGED <<regs, tp, ch, nextC, ka, stop, acc, thr, pipe, term, dir, envVars>>
  /\ Silent

\* ---------------------------------------------------------------- pipe_streams
MaxBytes == 2          \* bytes an endpoint sends on one connection
Bytes == {0, 1}

\* pipe_streams was called for connection k of local or dynamic tunnel t
\* (lines 801, 852).
Piping(t, k) == conn[t][k].st = "piping" /\ tp[t].kind \in {"local", "dynamic"}

Other(d) == IF d = "up" THEN "down" ELSE "up"

PipeFrame ==
  UNCHANGED <<regs, tp, ch, nextC, ka, tunnelVars, thr, socks, term, dir, envVars>> /\ Silent

\* The sending endpoint of direction d (the client for "up", the target for
\* "down") sends one more byte.
EndpointSend(t, k, d, b) ==
  /\ Piping(t, k)
  /\ ~pipe[t][k][d].eof
  /\ ~pipe[t][k][d].cut
  /\ Len(pipe[t][k][d].sent) < MaxBytes
  /\ pipe' = [pipe EXCEPT ![t][k][d].sent = Append(@, b)]
  /\ PipeFrame

\* The sending endpoint of direction d half-closes.
EndpointHalfClose(t, k, d) ==
  /\ Piping(t, k)
  /\ ~pipe[t][k][d].eof
  /\ pipe' = [pipe EXCEPT ![t][k][d].eof = TRUE]
  /\ PipeFrame

\* std::io::copy of lines 934 and 939: read returns n > 0 bytes.
CopyRead(t, k, d, n) ==
  /\ Piping(t, k)
  /\ pipe[t][k][d].st = "read"
  /\ n \in 1..(Len(pipe[t][k][d].sent) - pipe[t][k][d].taken)
  /\ LET c == pipe[t][k][d] IN
       pipe' = [pipe EXCEPT ![t][k][d] =
                  [c EXCEPT !.buf = SubSeq(c.sent, c.taken + 1, c.taken + n),
                            !.taken = c.taken + n,
                            !.st = "write"]]
  /\ PipeFrame

\* Faulty variant of CopyWrite: a single write, which may take only the first
\* byte of the chunk, in place of write_all.
CopyWriteOnce(t, k, d) ==
  /\ Piping(t, k)
  /\ pipe[t][k][d].st = "write"
  /\ LET c == pipe[t][k][d] IN
       pipe' = [pipe EXCEPT ![t][k][d] =
                  [c EXCEPT !.got = c.got \o SubSeq(c.buf, 1, 1),
                            !.buf = <<>>,
                            !.st = "read"]]
  /\ PipeFrame

\* std::io::copy: write_all of the chunk just read.
CopyWrite(t, k, d) ==
  /\ Piping(t, k)
  /\ pipe[t][k][d].st = "write"
  /\ LET c == pipe[t][k][d] IN
       pipe' = [pipe EXCEPT ![t][k][d] =
                  [c EXCEPT !.got = c.got \o c.buf,
                            !.buf = <<>>,
                            !.st = "read"]]
  /\ PipeFrame

\* The copier of direction d leaves std::io::copy and closes its destination
\* (line 935: channel_write.close(); line 940: stream_write.shutdown(Both)),
\* which is the source of the other copier.
CopierDone(t, k, d, got, failed) ==
  [pipe EXCEPT ![t][k][d] = [pipe[t][k][d] EXCEPT !.got = got, !.buf = <<>>,
                                                   !.st = "done", !.failed = failed],
               ![t][k][Other(d)].cut = TRUE]

\* read returns 0: the sender half-closed and everything was read, or the
\* other copier has closed this copier's source.
CopyEof(t, k, d) ==
  /\ Piping(t, k)
  /\ pipe[t][k][d].st = "read"
  /\ \/ pipe[t][k][d].eof /\ pipe[t][k][d].taken = Len(pipe[t][k][d].sent)
     \/ pipe[t][k][d].cut
  /\ pipe' = CopierDone(t, k, d, pipe[t][k][d].got, FALSE)
  /\ PipeFrame

\* A read or a write of the copier fails (timeout, reset, closed transport);
\* a failing write_all may have written the first j bytes of the chunk.
CopyFail(t, k, d, j) ==
  /\ Piping(t, k)
  /\ pipe[t][k][d].st \in {"read", "write"}
  /\ j \in 0..(Len(pipe[t][k][d].buf) - 1) \cup {0}
  /\ pipe' = CopierDone(t, k, d,
                        pipe[t][k][d].got \o SubSeq(pipe[t][k][d].buf, 1, j), TRUE)
  /\ PipeFrame

\* ---------------------------------------------------------------- terminal output
\* The reader thread's `Ok(n) if n > 0` arm, lines 352-358: one read fills at
\* most the buffer, and its bytes are emitted as one terminal-output event
\* whose data is String::from_utf8_lossy(&buffer[..n]).
BufferSize == 2        \* bytes of the read buffer (8192 in the code)
TermBytes == {65, 195, 169}
Chunks == UNION {[1..n -> TermBytes] : n \in 1..BufferSize}

RECURSIVE Flatten(_)
Flatten(ss) == IF ss = <<>> THEN <<>> ELSE Head(ss) \o Flatten(Tail(ss))

RECURSIVE TotalLen(_)
TotalLen(S) ==
  IF S = {} THEN 0
  ELSE LET c == CHOOSE x \in S : TRUE IN Len(term[c].reads) + TotalLen(S \ {c})

\* Faulty variant of Emitted: the data of a read is joined to the last event.
EmittedCoalesced(events, chunk) ==
  IF events = <<>> THEN <<FromUtf8Lossy(chunk)>>
  ELSE [events EXCEPT ![Len(events)] = @ \o FromUtf8Lossy(chunk)]

Emitted(events, chunk) == Append(events, FromUtf8Lossy(chunk))

ReaderRead(c, chunk) ==
  /\ ch[c].reader = "run"
  /\ TotalLen(Channels) < MaxReads
  /\ term' = [term EXCEPT ![c] = [reads |-> Append(term[c].reads, chunk),
                                  events |-> Emitted(term[c].events, chunk)]]
  /\ UNCHANGED <<regs, tp, ch, nextC, ka, tunnelVars, thr, pipe, socks, dir, envVars>>
  /\ Silent


\* ---------------------------------------------------------------- queries
\* is_connected, lines 467-470
IsConnected(id) == sessions[id] /= None

\* list_sessions, lines 472-475
ListSessions == {i \in Ids : sessions[i] /= None}

\* list_forwards, lines 768-771
ListForwards == {i \in Ids : forwards[i] /= None}

\* ---------------------------------------------------------------- specifications
\* Ids are opaque map keys and the code treats them all alike, so each
\* specification fixes which id plays which part.
Ida == "a"
Idb == "b"
W1 == {1}          \* one asynchronous call at a time, beside the dispatcher thread

\* One session id under the dispatcher thread and one asynchronous call:
\* connect, open_shell and its reader, write_to_shell, resize_pty, disconnect,
\* execute_command, sftp_*.
Next ==
  \/ \E th \in W1, ok \in BOOLEAN : ConnectStart(th, Ida, ok)
  \/ \E th \in W1 : ConnectInsertConn(th)
  \/ \E th \in W1 : ConnectInsertSess(th)
  \/ \E th \in W1, ok \in BOOLEAN : OpenShellStart(th, Ida, ok)
  \/ \E th \in W1 : OpenShellInsert(th)
  \/ \E c \in Channels, res \in ReadResults : ReaderStep(c, res)
  \/ \E ok \in BOOLEAN : WriteToShell(Ida, ok)
  \/ \E ok \in BOOLEAN : ResizePty(Ida, ok)
  \/ \E ok \in BOOLEAN : DisconnectStart(Ida, ok)
  \/ \E ok \in BOOLEAN : DisconnectChannel(ok)
  \/ \E ok \in BOOLEAN : DisconnectSession(ok)
  \/ DisconnectConn
  \/ ExecuteStart(Ida)
  \/ \E res \in ExecSteps \cup {"ok"} : ExecRun(res)
  \/ \E th \in W1 : SftpStart(th, Ida)
  \/ \E th \in {Main} \cup W1, ok \in BOOLEAN : SftpCreate(th, ok)
  \/ \E th \in {Main} \cup W1 : SftpInsert(th)
  \/ \E th \in W1, ok \in BOOLEAN : SftpRun(th, ok)
  \/ \E t \in Transports : TransportDrop(t)

Spec == Init /\ [][Next]_vars

\* The server admits the first tunnel transport only: once one has been
\* authenticated, create_authenticated_session fails for every later tunnel.
FirstTunnelOnly ==
  IF \E t \in FwdPool : tp[t].role /= "none" THEN {FALSE} ELSE BOOLEAN

\* Two sessions and a tunnel: the operations of session "a" and of tunnel "a"
\* beside a session "b" that connects, opens a shell and uses sftp_*.
NextFrame ==
  \/ \E th \in W1, id \in Ids, ok \in BOOLEAN : ConnectStart(th, id, ok)
  \/ \E th \in W1 : ConnectInsertConn(th)
  \/ \E th \in W1 : ConnectInsertSess(th)
  \/ \E th \in W1, id \in Ids, ok \in BOOLEAN : OpenShellStart(th, id, ok)
  \/ \E th \in W1 : OpenShellInsert(th)
  \/ \E ok \in BOOLEAN : WriteToShell(Ida, ok)
  \/ \E ok \in BOOLEAN : ResizePty(Ida, ok)
  \/ \E ok \in BOOLEAN : DisconnectStart(Ida, ok)
  \/ \E ok \in BOOLEAN : DisconnectChannel(ok)
  \/ \E ok \in BOOLEAN : DisconnectSession(ok)
  \/ DisconnectConn
  \/ \E th \in W1 : SftpStart(th, Idb)
  \/ \E th \in W1, ok \in BOOLEAN : SftpCreate(th, ok)
  \/ \E th \in W1 : SftpInsert(th)
  \/ \E th \in W1, ok \in BOOLEAN : SftpRun(th, ok)
  \/ \E th \in W1 : StartForwardCheck(th, Ida)
  \/ \E th \in W1, ok \in FirstTunnelOnly, cfgOk, bindOk \in BOOLEAN :
       StartForwardSetup(th, "local", ok, cfgOk, bindOk)
  \/ \E th \in W1 : StartForwardInsert(th)
  \/ \E th \in W1 : StopForwardRemove(th, Ida)
  \/ \E th \in W1 : StopForwardFlag(th)
  \/ \E th \in W1, ok \in BOOLEAN : StopForwardDisconnect(th, ok)

SpecFrame == Init /\ [][NextFrame]_vars

\* The tunnel engine: start_forward and stop_forward of tunnel "a", the accept
\* loops, the workers of accepted connections and the keepalive drivers.
AcceptReturns(t) == AcceptConn(t) \/ AcceptWouldBlock(t) \/ AcceptError(t)

NextFwd ==
  \/ \E th \in W1 : StartForwardCheck(th, Ida)
  \/ \E th \in W1, kind \in Kinds, ok \in FirstTunnelOnly, cfgOk, bindOk \in BOOLEAN :
       StartForwardSetup(th, kind, ok, cfgOk, bindOk)
  \/ \E th \in W1 : StartForwardInsert(th)
  \/ \E th \in W1 : StopForwardRemove(th, Ida)
  \/ \E th \in W1 : StopForwardFlag(th)
  \/ \E th \in W1, ok \in BOOLEAN : StopForwardDisconnect(th, ok)
  \/ \E t \in FwdPool : KaForwardCheck(t)
  \/ \E t \in FwdPool, res \in {"ok", "eagain", "hard"} : KaSend(t, res, 0)
  \/ \E t \in FwdPool : AcceptCheck(t)
  \/ \E t \in FwdPool : AcceptConn(t)
  \/ \E t \in FwdPool : AcceptWouldBlock(t)
  \/ \E t \in FwdPool : AcceptError(t)
  \/ \E t \in FwdPool, k \in 1..MaxConns, ok \in BOOLEAN : ConnWorker(t, k, ok)

\* Every thread that can take a step is eventually scheduled, and every call
\* it makes returns: accept() of a local or dynamic listener is non-blocking,
\* and every libssh2 call is bounded by the 30 s timeout of line 164.
FairFwd ==
  /\ \A th \in W1 : WF_vars(StopForwardFlag(th))
  /\ \A th \in W1 : WF_vars(\E ok \in BOOLEAN : StopForwardDisconnect(th, ok))
  /\ \A t \in FwdPool : WF_vars(KaForwardCheck(t))
  /\ \A t \in FwdPool : WF_vars(\E res \in {"ok", "eagain", "hard"} : KaSend(t, res, 0))
  /\ \A t \in FwdPool : WF_vars(AcceptCheck(t))
  /\ \A t \in FwdPool : WF_vars(AcceptReturns(t))
  /\ \A t \in FwdPool, k \in 1..MaxConns :
       WF_vars(\E ok \in BOOLEAN : ConnWorker(t, k, ok))

SpecFwd == Init /\ [][NextFwd]_vars /\ FairFwd

\* A local tunnel, the connections it accepts and their pipes.
NextPipe ==
  \/ \E th \in W1 : StartForwardCheck(th, Ida)
  \/ \E th \in W1, ok \in FirstTunnelOnly : StartForwardSetup(th, "local", ok, TRUE, TRUE)
  \/ \E th \in W1 : StartForwardInsert(th)
  \/ \E t \in FwdPool : AcceptCheck(t)
  \/ \E t \in FwdPool : AcceptConn(t)
  \/ \E t \in FwdPool, k \in 1..MaxConns, ok \in BOOLEAN : ConnWorker(t, k, ok)
  \/ \E t \in FwdPool, k \in 1..MaxConns, d \in Dirs, b \in Bytes : EndpointSend(t, k, d, b)
  \/ \E t \in FwdPool, k \in 1..MaxConns, d \in Dirs : EndpointHalfClose(t, k, d)
  \/ \E t \in FwdPool, k \in 1..MaxConns, d \in Dirs, n \in 1..MaxBytes : CopyRead(t, k, d, n)
  \/ \E t \in FwdPool, k \in 1..MaxConns, d \in Dirs : CopyWrite(t, k, d)
  \/ \E t \in FwdPool, k \in 1..MaxConns, d \in Dirs : CopyEof(t, k, d)
  \/ \E t \in FwdPool, k \in 1..MaxConns, d \in Dirs, j \in 0..MaxBytes : CopyFail(t, k, d, j)

\* Each copier is a thread of its own and is eventually scheduled; a read
\* with bytes pending and a write_all return.
FairPipe ==
  \A t \in FwdPool, k \in 1..MaxConns, d \in Dirs :
    /\ WF_vars(\E n \in 1..MaxBytes : CopyRead(t, k, d, n))
    /\ WF_vars(CopyWrite(t, k, d))

SpecPipe == Init /\ [][NextPipe]_vars /\ FairPipe

\* The accepted connections of tunnel t whose worker has not run yet.
Spawned(t) == {k \in 1..MaxConns : conn[t][k].st = "spawned"}

\* A dynamic tunnel, the connections it accepts and their SOCKS5 exchanges.
NextSocks ==
  \/ \E th \in W1 : StartForwardCheck(th, Ida)
  \/ \E th \in W1, ok \in FirstTunnelOnly : StartForwardSetup(th, "dynamic", ok, TRUE, TRUE)
  \/ \E th \in W1 : StartForwardInsert(th)
  \/ \E t \in FwdPool : AcceptCheck(t)
  \/ \E t \in FwdPool : AcceptConn(t)
  \/ \E t \in FwdPool : \E k \in Spawned(t), input \in SocksInputs, chanOk \in BOOLEAN :
       SocksWorker(t, k, input, chanOk)

SpecSocks == Init /\ [][NextSocks]_vars

\* Two start_forward calls with the id "a" on two blocking-pool threads,
\* stop_forward of "a", and the accept loop of every tunnel started.
NextRace ==
  \/ \E th \in Workers : StartForwardCheck(th, Ida)
  \/ \E th \in Workers, ok \in BOOLEAN : StartForwardSetup(th, "dynamic", ok, TRUE, TRUE)
  \/ \E th \in Workers : StartForwardInsert(th)
  \/ \E th \in Workers : StopForwardRemove(th, Ida)
  \/ \E th \in Workers : StopForwardFlag(th)
  \/ \E th \in Workers, ok \in BOOLEAN : StopForwardDisconnect(th, ok)
  \/ \E t \in FwdPool : AcceptCheck(t)
  \/ \E t \in FwdPool : AcceptWouldBlock(t)
  \/ \E t \in FwdPool : AcceptError(t)

SpecRace == Init /\ [][NextRace]_vars

\* A dynamic tunnel whose clients send one of a few SOCKS5 exchanges (a
\* CONNECT to an IPv4 address, a BIND, a cut-off request, a SOCKS4 greeting),
\* and the pipes of the connections whose request was granted.
SocksSamples ==
  {<<5, 1, 0, 5, 1, 0, 1, 10, 0, 0, 1, 0, 80>>,
   <<5, 1, 0, 5, 2, 0, 1, 10, 0, 0, 1, 0, 80>>,
   <<5, 1, 0, 5, 1, 0>>,
   <<4, 1>>}

NextSocksPipe ==
  \/ \E th \in W1 : StartForwardCheck(th, Ida)
  \/ \E th \in W1, ok \in FirstTunnelOnly : StartForwardSetup(th, "dynamic", ok, TRUE, TRUE)
  \/ \E th \in W1 : StartForwardInsert(th)
  \/ \E t \in FwdPool : AcceptCheck(t)
  \/ \E t \in FwdPool : AcceptConn(t)
  \/ \E t \in FwdPool : \E k \in Spawned(t), input \in SocksSamples, chanOk \in BOOLEAN :
       SocksWorker(t, k, input, chanOk)
  \/ \E t \in FwdPool, k \in 1..MaxConns, d \in Dirs, b \in Bytes : EndpointSend(t, k, d, b)
  \/ \E t \in FwdPool, k \in 1..MaxConns, d \in Dirs : EndpointHalfClose(t, k, d)
  \/ \E t \in FwdPool, k \in 1..MaxConns, d \in Dirs, n \in 1..MaxBytes : CopyRead(t, k, d, n)
  \/ \E t \in FwdPool, k \in 1..MaxConns, d \in Dirs : CopyWrite(t, k, d)
  \/ \E t \in FwdPool, k \in 1..MaxConns, d \in Dirs : CopyEof(t, k, d)
  \/ \E t \in FwdPool, k \in 1..MaxConns, d \in Dirs, j \in 0..MaxBytes : CopyFail(t, k, d, j)

SpecSocksPipe == Init /\ [][NextSocksPipe]_vars

\* A session whose shell is opened and whose reader reads what the remote
\* side sends until the channel ends.
NextTerm ==
  \/ \E th \in W1, ok \in BOOLEAN : ConnectStart(th, Ida, ok)
  \/ \E th \in W1 : ConnectInsertConn(th)
  \/ \E th \in W1 : ConnectInsertSess(th)
  \/ \E th \in W1, ok \in BOOLEAN : OpenShellStart(th, Ida, ok)
  \/ \E th \in W1 : OpenShellInsert(th)
  \/ \E c \in Channels, chunk \in Chunks : ReaderRead(c, chunk)
  \/ \E c \in Channels, res \in ReadResults \ {"data"} : ReaderStep(c, res)

SpecTerm == Init /\ [][NextTerm]_vars

\* The same with every thread scheduled: a call in flight and a running
\* reader keep taking steps.  No disconnect is ever called.
FairTerm == WF_vars(NextTerm)

SpecTermLive == SpecTerm /\ FairTerm

\* A session whose directories are listed.
NextList ==
  \/ \E th \in W1 : ConnectStart(th, Ida, TRUE)
  \/ \E th \in W1 : ConnectInsertConn(th)
  \/ \E th \in W1 : ConnectInsertSess(th)
  \/ \E th \in W1 : SftpStart(th, Ida)
  \/ \E th \in W1, ok \in BOOLEAN : SftpCreate(th, ok)
  \/ \E th \in W1 : SftpInsert(th)
  \/ \E th \in W1, path \in Paths, ok \in BOOLEAN : SftpListDir(th, path, ok)
  \/ \E listing \in NextListings(dir.listing) : RemoteChange(listing)

SpecList == Init /\ [][NextList]_vars

\* The local pty manager: shells opened from two blocking-pool threads and
\* disconnected from the dispatcher thread.
NextPty ==
  \/ \E th \in Workers, id \in Ids : LocalOpenStart(th, id)
  \/ \E th \in Workers, res \in {"ok", "spawn", "clone"} : LocalOpenSpawn(th, res)
  \/ \E th \in Workers : LocalOpenInsert(th)
  \/ \E id \in Ids : LocalDisconnect(id)

SpecPty == Init /\ [][NextPty]_vars

\* The local shell of id "a": open_shell, disconnect, and the reader thread
\* of every shell opened.
NextPtyRead ==
  \/ \E th \in W1 : LocalOpenStart(th, Ida)
  \/ \E th \in W1, res \in {"ok", "spawn", "clone"} : LocalOpenSpawn(th, res)
  \/ \E th \in W1 : LocalOpenInsert(th)
  \/ LocalDisconnect(Ida)
  \/ \E c \in Children, res \in LocalReadResults : LocalReaderStep(c, res)

SpecPtyRead == Init /\ [][NextPtyRead]_vars

\* connect and start_forward, and the keepalive drivers they spawn,
\* keepalive_send advising every delay up to MaxWait.
Waits == 0..MaxWait

NextKa ==
  \/ \E th \in W1, ok \in BOOLEAN : ConnectStart(th, Ida, ok)
  \/ \E th \in W1 : ConnectInsertConn(th)
  \/ \E th \in W1 : ConnectInsertSess(th)
  \/ \E th \in W1 : StartForwardCheck(th, Ida)
  \/ \E th \in W1, ok \in FirstTunnelOnly : StartForwardSetup(th, "local", ok, TRUE, TRUE)
  \/ \E th \in W1 : StartForwardInsert(th)
  \/ \E t \in ShellPool : KaSessionCheck(t)
  \/ \E t \in FwdPool : KaForwardCheck(t)
  \/ \E t \in Transports, wait \in Waits : KaSend(t, "ok", wait)
  \/ \E t \in Transports, res \in {"eagain", "hard"} : KaSend(t, res, 0)

SpecKa == Init /\ [][NextKa]_vars

\* connect and disconnect of session "a" beside the keepalive drivers of the
\* sessions connected under that id.
NextKaSess ==
  \/ \E th \in W1, ok \in BOOLEAN : ConnectStart(th, Ida, ok)
  \/ \E th \in W1 : ConnectInsertConn(th)
  \/ \E th \in W1 : ConnectInsertSess(th)
  \/ \E ok \in BOOLEAN : DisconnectStart(Ida, ok)
  \/ \E ok \in BOOLEAN : DisconnectChannel(ok)
  \/ \E ok \in BOOLEAN : DisconnectSession(ok)
  \/ DisconnectConn
  \/ \E t \in ShellPool : KaSessionCheck(t)
  \/ \E t \in ShellPool, res \in {"ok", "eagain", "hard"} : KaSend(t, res, 0)

SpecKaSess == Init /\ [][NextKaSess]_vars

\* Every operation on one session id and one tunnel id, the reader of the
\* shell and the keepalive drivers, as the lock() calls they make.
NextLocks ==
  \/ \E a \in Agents, op \in DOMAIN LockOps : LockBegin(a, op)
  \/ \E a \in Agents : LockStep(a)

\* A thread that can make its next call makes it, and a thread waiting for a
\* mutex gets it if the mutex is freed again and again: every holder drops it
\* after a bounded I/O call, and the loops sleep between two passes (10 ms
\* the reader, at least 1 s the keepalive drivers).
FairLocks ==
  /\ \A a \in Callers : SF_vars(LockStep(a))
  /\ \A a \in Agents \ Callers : WF_vars(LockStep(a))

SpecLocks == Init /\ [][NextLocks]_vars /\ FairLocks

\* connect with every user name, and disconnect, in a process started with
\* any values of USER and USERNAME.
InitUser ==
  /\ InitManager
  /\ login \in {[NoLogin EXCEPT !.user = u, !.usernameVar = v] :
                  u \in EnvValues, v \in EnvValues}

NextUser ==
  \/ \E th \in W1, username \in UserNames, failAt \in FailStages :
       ConnectAs(th, Ida, username, failAt)
  \/ \E th \in W1 : ConnectInsertConn(th)
  \/ \E th \in W1 : ConnectInsertSess(th)
  \/ \E ok \in BOOLEAN : DisconnectStart(Ida, ok)
  \/ \E ok \in BOOLEAN : DisconnectChannel(ok)
  \/ \E ok \in BOOLEAN : DisconnectSession(ok)
  \/ DisconnectConn

SpecUser == InitUser /\ [][NextUser]_vars

\* connect with every authentication method and every failing stage, and
\* disconnect, on two ids.
NextAuth ==
  \/ \E th \in W1, id \in Ids, auth \in AuthKinds, failAt \in FailStages :
       ConnectCall(th, id, auth, failAt)
  \/ \E th \in W1 : ConnectInsertConn(th)
  \/ \E th \in W1 : ConnectInsertSess(th)
  \/ \E id \in Ids, ok \in BOOLEAN : DisconnectStart(id, ok)
  \/ \E ok \in BOOLEAN : DisconnectChannel(ok)
  \/ \E ok \in BOOLEAN : DisconnectSession(ok)
  \/ DisconnectConn

SpecAuth == Init /\ [][NextAuth]_vars

\* ---------------------------------------------------------------- properties
\* C1 (as the specification states it): an execute_command whose first attempt
\* fails at any step drops the cached file-transfer transport and makes exactly
\* one more attempt, so a call that returns a failure has made two attempts.
C1_RetryOnce ==
  (last.op = "execute" /\ last.fail \in ExecSteps) =>
    (last.n = 2 /\ last.dropped)

\* C2: the reader thread of a shell channel pushes at most one
\* terminal-disconnected event, and only after a read on its channel returned
\* eof or an error other than WouldBlock.
C2_OneDisconnectEvent ==
  \A c \in Channels :
    /\ ch[c].events <= 1
    /\ ch[c].events = 1 => (ch[c].last \in {"eof", "error"} /\ ch[c].reader = "done")
    /\ ch[c].reader = "none" => ch[c].events = 0

C2_Witness ==
  \E c \in Channels :
    /\ ch[c].events = 1
    /\ ch[c].last = "eof"
    /\ channels[ch[c].id] = c

\* C3: start_forward with an id that is a key of the tunnel registry returns
\* AlreadyRunning in the step of its registry check, and that step leaves the
\* registry, every stop flag, every transport (none is authenticated), every
\* accept loop, every accepted connection and every keepalive driver unchanged.
C3_AlreadyRunning ==
  [][\A th \in Workers, id \in Ids :
       (forwards[id] /= None /\ StartForwardCheck(th, id)) =>
         /\ last'.op = "start_forward"
         /\ last'.ret = "AlreadyRunning"
         /\ ~Busy(th)'
         /\ UNCHANGED <<forwards, stop, tp, acc, conn, ka>>]_vars

C3_Witness ==
  /\ last.op = "start_forward"
  /\ last.ret = "AlreadyRunning"
  /\ forwards[last.id] /= None
  /\ acc[forwards[last.id]] \in {"check", "accept"}
  /\ ka[forwards[last.id]] \in {"check", "send"}

\* C4: disconnect returns Ok whether or not the id is known and whether or not
\* closing the channel or disconnecting a transport failed; if no other call on
\* the id overlapped it, the id is then a key of none of the session, channel,
\* file-transfer and connection registries, is_connected(id) is false and
\* list_sessions() does not contain it.
C4_DisconnectClears ==
  last.op = "disconnect" =>
    /\ last.ret = "Ok"
    /\ last.clean =>
         /\ sessions[last.id] = None
         /\ channels[last.id] = None
         /\ sftp_sessions[last.id] = None
         /\ ~connections[last.id]
         /\ ~IsConnected(last.id)
         /\ last.id \notin ListSessions

C4_Witness ==
  /\ last.op = "disconnect"
  /\ last.ret = "Ok"
  /\ last.clean
  /\ last.fail = "shell"
  /\ \E c \in Channels : ch[c].id = last.id /\ ch[c].closed

\* The steps of open_shell, write_to_shell, resize_pty and disconnect on `id`.
ShellOpStep(id) ==
  \/ \E th \in Workers, ok \in BOOLEAN : OpenShellStart(th, id, ok)
  \/ \E th \in Workers : thr[th].id = id /\ OpenShellInsert(th)
  \/ \E ok \in BOOLEAN : WriteToShell(id, ok)
  \/ \E ok \in BOOLEAN : ResizePty(id, ok)

DisconnectStep(id) ==
  \/ \E ok \in BOOLEAN : DisconnectStart(id, ok)
  \/ /\ thr[Main].id = id
     /\ \/ \E ok \in BOOLEAN : DisconnectChannel(ok)
        \/ \E ok \in BOOLEAN : DisconnectSession(ok)
        \/ DisconnectConn

\* Everything session `id` owns is as before the step: its four registry
\* entries, its shell and file-transfer transports, its channels and the
\* state of their reader threads.
SessionUntouched(id) ==
  /\ sessions'[id] = sessions[id]
  /\ channels'[id] = channels[id]
  /\ sftp_sessions'[id] = sftp_sessions[id]
  /\ connections'[id] = connections[id]
  /\ sessions[id] /= None => tp'[sessions[id]] = tp[sessions[id]]
  /\ sftp_sessions[id] /= None => tp'[sftp_sessions[id]] = tp[sftp_sessions[id]]
  /\ \A c \in Channels : ch[c].id = id => ch'[c] = ch[c]

\* C5: for distinct session ids A and B, no step of open_shell,
\* write_to_shell, resize_pty or disconnect on A changes an entry of B in the
\* session, channel, file-transfer or connection registry, B's transports or
\* channels, or the state of B's reader thread, and none changes the tunnel
\* registry.
C5_SessionFrame ==
  [][\A A \in Ids, B \in Ids :
       (A /= B /\ (ShellOpStep(A) \/ DisconnectStep(A))) =>
         (SessionUntouched(B) /\ forwards' = forwards)]_vars

C5_Witness ==
  /\ last.op = "disconnect"
  /\ last.id = Ida
  /\ \E t \in ShellPool : tp[t].id = Ida /\ tp[t].disc
  /\ \E c \in Channels : ch[c].id = Ida /\ ch[c].closed
  /\ sessions[Idb] /= None
  /\ channels[Idb] /= None
  /\ ch[channels[Idb]].reader = "run"
  /\ sftp_sessions[Idb] /= None
  /\ forwards[Ida] /= None

\* The steps of stop_forward on tunnel `id`, run by thread th.
StopForwardStep(th, id) ==
  \/ StopForwardRemove(th, id)
  \/ /\ thr[th].op = "stop_forward"
     /\ thr[th].id = id
     /\ \/ StopForwardFlag(th)
        \/ \E ok \in BOOLEAN : StopForwardDisconnect(th, ok)

\* The transport of the tunnel that thread th is stopping, or is about to.
StoppedTransport(th, id) == IF Busy(th) THEN thr[th].t ELSE forwards[id]

\* C6: a registered tunnel's transport is the transport of no session and of
\* no file-transfer cache entry; a step of stop_forward(id) changes nothing but
\* the registry entry, stop flag and transport of tunnel id and leaves the
\* session, channel, file-transfer and connection registries unchanged; a step
\* of disconnect leaves the tunnel registry, every stop flag and every tunnel
\* transport unchanged.
C6_TunnelFrame ==
  /\ [](\A i \in Ids, j \in Ids :
          forwards[i] /= None =>
            (forwards[i] /= sessions[j] /\ forwards[i] /= sftp_sessions[j]))
  /\ [][\A th \in Workers, id \in Ids :
          StopForwardStep(th, id) =>
            /\ UNCHANGED <<sessions, channels, sftp_sessions, connections>>
            /\ \A i \in Ids : i /= id => forwards'[i] = forwards[i]
            /\ \A t \in Transports :
                 t /= StoppedTransport(th, id) =>
                   (stop'[t] = stop[t] /\ tp'[t] = tp[t])]_vars
  /\ [][\A id \in Ids :
          DisconnectStep(id) =>
            /\ forwards' = forwards
            /\ stop' = stop
            /\ \A i \in Ids :
                 forwards[i] /= None => tp'[forwards[i]] = tp[forwards[i]]
            /\ \A t \in FwdPool : tp'[t] = tp[t]]_vars

C6_Witness ==
  /\ last.op = "stop_forward"
  /\ last.ret = "Ok"
  /\ stop[last.t]
  /\ tp[last.t].disc
  /\ sessions[Idb] /= None
  /\ ~tp[sessions[Idb]].disc
  /\ sftp_sessions[Idb] /= None
  /\ ~tp[sftp_sessions[Idb]].disc
  /\ \E t \in ShellPool : tp[t].id = Ida /\ tp[t].disc

\* The steps of execute_command and of the sftp_* operations.
FileTransferStep ==
  \/ \E id \in Ids : ExecuteStart(id)
  \/ \E res \in ExecSteps \cup {"ok"} : ExecRun(res)
  \/ \E th \in Workers, id \in Ids : SftpStart(th, id)
  \/ \E th \in Threads, ok \in BOOLEAN : SftpCreate(th, ok)
  \/ \E th \in Threads : SftpInsert(th)
  \/ \E th \in Workers, ok \in BOOLEAN : SftpRun(th, ok)

\* The transports a file-transfer call holds or the cache names.
FileTransferTransports ==
  {sftp_sessions[i] : i \in Ids} \cup
  {thr[th].t : th \in {w \in Threads : thr[w].pc \in {"g_insert", "e_run", "s_run"}}}

\* C7: execute_command and the sftp_* operations run on a transport that is
\* not the shell transport of any session, carries no shell channel and is in
\* blocking mode, whatever shell is open; none of their steps changes the
\* blocking mode of a shell transport, and no step of open_shell changes the
\* blocking mode of a file-transfer transport.
C7_ModeDiscipline ==
  /\ [](\A th \in Threads :
          thr[th].pc \in {"e_run", "s_run"} =>
            /\ thr[th].t /= None
            /\ \A i \in Ids : thr[th].t /= sessions[i]
            /\ \A c \in Channels : ch[c].t /= thr[th].t
            /\ tp[thr[th].t].blocking)
  /\ [](\A i \in Ids :
          sftp_sessions[i] /= None => \A j \in Ids : sftp_sessions[i] /= sessions[j])
  /\ [][FileTransferStep =>
          \A t \in Transports :
            (tp[t].role = "shell" \/ \E i \in Ids : sessions[i] = t) =>
              tp'[t].blocking = tp[t].blocking]_vars
  /\ [][\A id \in Ids :
          ShellOpStep(id) =>
            \A t \in FileTransferTransports \ {None} :
              tp'[t].blocking = tp[t].blocking]_vars

C7_Witness ==
  /\ last.op = "execute"
  /\ last.ret = "Ok"
  /\ channels[last.id] /= None
  /\ ch[channels[last.id]].reader = "run"
  /\ ~tp[sessions[last.id]].blocking
  /\ tp[last.t].blocking

\* C8 (as the specification states it): every key of the file-transfer
\* registry is a key of the session registry.  It is stated here for the
\* states in which no connect is between its two inserts, the interleavings of
\* disconnect with execute_command and sftp_* among them.
C8_SftpKeysAreSessionKeys ==
  (\A th \in Threads : thr[th].op /= "connect") =>
    \A i \in Ids : sftp_sessions[i] /= None => sessions[i] /= None

\* C9 (as the specification states it): no id is a key of the tunnel registry
\* and of the session registry at once.
C9_TunnelIdsNotSessionIds ==
  \A i \in Ids : ~(forwards[i] /= None /\ sessions[i] /= None)

\* C10: when stop_forward returns Ok the id is no key of the tunnel registry
\* (list_forwards does not return it), the handle's stop flag is set and its
\* transport disconnected; from then on the tunnel's accept loop and keepalive
\* driver eventually exit; a connection accepted while the flag is set is
\* closed by its worker and never piped.
C10_Return ==
  (last.op = "stop_forward" /\ last.ret = "Ok") =>
    /\ forwards[last.id] = None
    /\ last.id \notin ListForwards
    /\ \A i \in Ids : forwards[i] /= last.t
    /\ stop[last.t]
    /\ tp[last.t].disc

C10_LateClosed ==
  \A t \in Transports, k \in 1..MaxConns :
    conn[t][k].late => conn[t][k].st \in {"spawned", "closed"}

C10_StopForward ==
  /\ [](C10_Return /\ C10_LateClosed)
  /\ \A t \in FwdPool : stop[t] ~> (acc[t] = "exited" /\ ka[t] = "exited")
  /\ \A t \in FwdPool, k \in 1..MaxConns :
       conn[t][k].late ~> (conn[t][k].st = "closed")

C10_Witness ==
  \E t \in FwdPool, k \in 1..MaxConns :
    /\ stop[t]
    /\ tp[t].disc
    /\ acc[t] = "exited"
    /\ ka[t] = "exited"
    /\ conn[t][k].late
    /\ conn[t][k].st = "closed"

\* The errors start_forward returns after its registry check.
StartForwardErrors == {"AuthError", "BindingMissing", "BindError", "ListenError"}

\* C11: a start_forward that returns an authentication, missing-binding, bind
\* or listen error leaves the tunnel registry as it was: the step that returns
\* the error does not change it, on return the id is no key of it and
\* list_forwards does not contain it, and a start_forward whose registry check
\* finds the id absent is not answered AlreadyRunning.
C11_StartForwardError ==
  /\ []((last.op = "start_forward" /\ last.ret \in StartForwardErrors) =>
          (forwards[last.id] = None /\ last.id \notin ListForwards))
  /\ [][(last'.op = "start_forward" /\ last'.ret \in StartForwardErrors) =>
          forwards' = forwards]_vars
  /\ [][\A th \in Workers, id \in Ids :
          (forwards[id] = None /\ StartForwardCheck(th, id)) =>
            (last'.ret /= "AlreadyRunning" /\ thr'[th].pc = "f_auth")]_vars

C11_Witness ==
  /\ last.op = "start_forward"
  /\ last.ret = "ListenError"
  /\ last.t /= None
  /\ tp[last.t].auth
  /\ forwards[last.id] = None

C13_EmptyKeyNoNetwork ==
  (last.op = "connect" /\ last.cas.auth = "key_empty") =>
    (last.ret = "AuthError" /\ last.cas.net = <<>>)

IsPrefix(p, q) == Len(p) <= Len(q) /\ p = SubSeq(q, 1, Len(p))

\* An endpoint of connection k of tunnel t has half-closed, or an I/O call of
\* one of its copiers has failed.
Interrupted(t, k) ==
  \E d \in Dirs : pipe[t][k][d].eof \/ pipe[t][k][d].failed

ConnectByName(ms, nm, p) ==
  <<5, Len(ms)>> \o ms \o <<5, 1, 0, 3, Len(nm)>> \o nm \o p

Served(t, k) == socks[t][k].end \in {"rejected", "piping", "refused"}

\* C15 as stated: a version-5 client offering method 0x00 that asks to CONNECT
\* to a domain name is never rejected, the channel is opened to exactly the
\* name bytes and the big-endian port it sent, and once the channel is open the
\* client has been written exactly 05 00 and 05 00 00 01 00 00 00 00 00 00.
C15_SocksExactName ==
  \A t \in FwdPool, k \in 1..MaxConns, ms \in MethodLists, nm \in Names, p \in Ports :
    (/\ Served(t, k)
     /\ \E i \in 1..Len(ms) : ms[i] = 0
     /\ socks[t][k].input = ConnectByName(ms, nm, p))
    => /\ socks[t][k].end \in {"piping", "refused"}
       /\ Utf8Bytes(socks[t][k].target[1]) = nm
       /\ socks[t][k].target[2] = (p[1] * 256) + p[2]
       /\ socks[t][k].end = "piping"
            => /\ socks[t][k].reply = <<5, 0, 5, 0, 0, 1, 0, 0, 0, 0, 0, 0>>
               /\ conn[t][k].st = "piping"

\* C15 amended: as above, but the host the channel is opened to is the lossy
\* UTF-8 decoding of the name bytes (the name itself when it is valid UTF-8,
\* U+FFFD for every invalid byte), and the success reply is written when the
\* direct-tcpip open succeeds.
C15_SocksSuccess ==
  \A t \in FwdPool, k \in 1..MaxConns, ms \in MethodLists, nm \in Names, p \in Ports :
    (/\ Served(t, k)
     /\ \E i \in 1..Len(ms) : ms[i] = 0
     /\ socks[t][k].input = ConnectByName(ms, nm, p))
    => /\ socks[t][k].end \in {"piping", "refused"}
       /\ socks[t][k].target[1] =
            [i \in 1..Len(nm) |-> IF nm[i] < 128 THEN nm[i] ELSE 65533]
       /\ (\A i \in 1..Len(nm) : nm[i] < 128)
            => Utf8Bytes(socks[t][k].target[1]) = nm
       /\ socks[t][k].target[2] = (p[1] * 256) + p[2]
       /\ socks[t][k].end = "piping"
            => /\ socks[t][k].reply = <<5, 0, 5, 0, 0, 1, 0, 0, 0, 0, 0, 0>>
               /\ conn[t][k].st = "piping"

C15_Witness ==
  \E t \in FwdPool, k \in 1..MaxConns :
    /\ socks[t][k].end = "piping"
    /\ socks[t][k].input = ConnectByName(<<2, 0>>, <<97, 97>>, <<1, 187>>)
    /\ socks[t][k].target = <<(<<97, 97>>), 443>>

\* The greeting (preamble and method list) has arrived and does not satisfy
\* the version-5 / no-auth requirement.
GreetingRefused(input) ==
  /\ Len(input) >= 2
  /\ Len(input) >= 2 + input[2]
  /\ \/ input[1] /= 5
     \/ \A i \in 3..(2 + input[2]) : input[i] /= 0

\* The greeting is acceptable, the four bytes of the request header have
\* arrived, and its version is not 5 or its command is not CONNECT.
RequestRefused(input) ==
  /\ Len(input) >= 2
  /\ Len(input) >= 6 + input[2]
  /\ ~GreetingRefused(input)
  /\ \/ input[3 + input[2]] /= 5
     \/ input[4 + input[2]] /= 1

\* C16: a client rejected during the handshake has been written 05 FF when its
\* greeting fails the version-5 / no-auth requirement, 05 00 and then
\* 05 07 00 01 00 00 00 00 00 00 when its request header is refused; no channel
\* is opened for it and its connection is closed without piping.
C16_SocksRejections ==
  \A t \in FwdPool, k \in 1..MaxConns :
    socks[t][k].end = "rejected"
    => /\ socks[t][k].target = <<>>
       /\ conn[t][k].st = "closed"
       /\ pipe[t][k] = NoPipe
       /\ GreetingRefused(socks[t][k].input) => socks[t][k].reply = <<5, 255>>
       /\ RequestRefused(socks[t][k].input)
            => socks[t][k].reply = <<5, 0, 5, 7, 0, 1, 0, 0, 0, 0, 0, 0>>

\* C17 as stated: for each shell channel the bytes of the event data, joined
\* in emission order, are the bytes read from the channel in arrival order,
\* one event for each read of at most the buffer size.
C17_EventBytes ==
  \A c \in Channels :
    /\ Len(term[c].events) = Len(term[c].reads)
    /\ \A i \in 1..Len(term[c].reads) : Len(term[c].reads[i]) \in 1..BufferSize
    /\ Utf8Bytes(Flatten(term[c].events)) = Flatten(term[c].reads)

\* A read whose bytes are well-formed UTF-8 on their own (over TermBytes:
\* single bytes below 128 and the pair C3 A9).
RECURSIVE WellFormedUtf8(_)
WellFormedUtf8(bs) ==
  \/ bs = <<>>
  \/ bs[1] < 128 /\ WellFormedUtf8(Tail(bs))
  \/ /\ Len(bs) >= 2
     /\ bs[1] = 195
     /\ bs[2] = 169
     /\ WellFormedUtf8(Tail(Tail(bs)))

\* C17 amended: the k-th terminal-output event of a channel carries the lossy
\* UTF-8 decoding of the k-th read that returned data (at most the buffer
\* size), nothing reordered, dropped, duplicated or joined; its bytes are the
\* bytes read when every read is well-formed UTF-8 on its own.
C17_EventPerRead ==
  \A c \in Channels :
    /\ Len(term[c].events) = Len(term[c].reads)
    /\ \A i \in 1..Len(term[c].reads) :
         /\ Len(term[c].reads[i]) \in 1..BufferSize
         /\ term[c].events[i] = FromUtf8Lossy(term[c].reads[i])
         /\ WellFormedUtf8(term[c].reads[i])
              => /\ \A j \in 1..Len(term[c].events[i]) : term[c].events[i][j] \in {65, 233}
                 /\ Utf8Bytes(term[c].events[i]) = term[c].reads[i]
    /\ (\A i \in 1..Len(term[c].reads) : WellFormedUtf8(term[c].reads[i]))
         => Utf8Bytes(Flatten(term[c].events)) = Flatten(term[c].reads)

C17_Witness ==
  \E c \in Channels :
    /\ term[c].reads = <<(<<65, 195>>), (<<169>>)>>
    /\ term[c].events = <<(<<65, 65533>>), (<<65533>>)>>

Listed == dir.calls > 0

\* C18: the result of listDir(p) holds an entry named '..' iff p, trimmed, is
\* none of "", "." and "/"; that entry is the first, is a directory, and no
\* other entry has that name, whatever the server listed.
C18_ParentEntry ==
  Listed =>
    LET hasParent == \E i \in 1..Len(dir.out) : dir.out[i].name = <<46, 46>> IN
    /\ hasParent <=> Trim(dir.path) \notin {<<>>, <<46>>, <<47>>}
    /\ hasParent => /\ dir.out[1] = [name |-> <<46, 46>>, is_dir |-> TRUE]
                    /\ \A i \in 2..Len(dir.out) : dir.out[i].name /= <<46, 46>>

C18_Witness ==
  /\ Listed
  /\ dir.path = <<32, 100>>
  /\ \E i \in 1..Len(dir.listing) : dir.listing[i].name = <<46, 46>>
  /\ dir.out[1].name = <<46, 46>>

\* a precedes b in the order of the listing: directories before files, then
\* names compared ignoring case
Precedes(a, b) ==
  \/ a.is_dir /\ ~b.is_dir
  \/ a.is_dir = b.is_dir /\ StrCmp(ToLowercase(a.name), ToLowercase(b.name)) = "Less"

\* C19: the result of listDir is, behind the parent entry if there is one, a
\* rearrangement of the server entries whose name is not empty, '.' or '..',
\* in which directories come before files and names ascend ignoring case,
\* entries that are equal in both keeping the server's order; a second call
\* on the unchanged directory returns the same sequence.
C19_SortedListing ==
  Listed =>
    LET served == SelectSeq(dir.listing,
                            LAMBDA e : e.name \notin {<<>>, <<46>>, <<46, 46>>})
        body == IF dir.out /= <<>> /\ dir.out[1].name = <<46, 46>>
                  THEN Tail(dir.out) ELSE dir.out
        n == Len(served)
    IN /\ Len(body) = n
       /\ \E f \in [1..n -> 1..n] :
            /\ \A i, j \in 1..n : i /= j => f[i] /= f[j]
            /\ \A i \in 1..n : body[i] = served[f[i]]
            /\ \A i, j \in 1..n :
                 i < j => /\ ~Precedes(body[j], body[i])
                          /\ ~Precedes(body[i], body[j]) => f[i] < f[j]
       /\ dir.calls = 2 => dir.prev = dir.out

C19_Witness ==
  /\ dir.calls = 2
  /\ dir.path = <<100>>
  /\ dir.listing = <<File(<<65>>), Dir(<<100>>), File(<<97>>)>>
  /\ dir.out = <<Parent, Dir(<<100>>), File(<<65>>), File(<<97>>)>>

\* C20 as stated: listDir(id, "") on the directory '.', '..', a, B, z, d/
\* returns '..', d, a, B, z.
C20_ExampleFive ==
  (Listed /\ dir.path = <<>> /\ dir.listing = ExampleListing)
  => dir.out = <<Dir(<<46, 46>>), Dir(<<100>>), File(<<97>>), File(<<66>>), File(<<122>>)>>

\* C20 amended: listDir(id, "") on that directory returns the four entries
\* d, a, B, z and no '..', the empty path being the root sentinel "."; for a
\* path that is no root sentinel (here "d") it returns '..', d, a, B, z.
C20_ExampleFour ==
  (Listed /\ dir.listing = ExampleListing)
  => /\ dir.path = <<>>
          => dir.out = <<Dir(<<100>>), File(<<97>>), File(<<66>>), File(<<122>>)>>
     /\ dir.path = <<100>>
          => dir.out = <<Dir(<<46, 46>>), Dir(<<100>>), File(<<97>>), File(<<66>>),
                         File(<<122>>)>>

C20_Witness ==
  /\ Listed
  /\ dir.path = <<>>
  /\ dir.listing = ExampleListing
  /\ Len(dir.out) = 4

Blank(str) == \A i \in 1..Len(str) : str[i] \in {9, 10, 32}

\* C21 as stated: the name submitted is the descriptor's username unless that
\* is blank, else the value of USER if it is set and not empty, else "root".
C21_UsernameAsGiven ==
  login.calls > 0 =>
    login.sent = IF ~Blank(login.username) THEN login.username
                 ELSE IF login.user.set /\ login.user.val /= <<>> THEN login.user.val
                 ELSE <<114, 111, 111, 116>>

\* str surrounded by blanks only makes up whole
Trimmed(str, whole) ==
  /\ str /= <<>>
  /\ str[1] \notin {9, 10, 32}
  /\ str[Len(str)] \notin {9, 10, 32}
  /\ \E i \in 1..Len(whole) :
       /\ i + Len(str) - 1 <= Len(whole)
       /\ str = SubSeq(whole, i, i + Len(str) - 1)
       /\ Blank(SubSeq(whole, 1, i - 1))
       /\ Blank(SubSeq(whole, i + Len(str), Len(whole)))

\* C21 amended: the name submitted is the descriptor's username without its
\* leading and trailing whitespace unless that username is blank; else the
\* value of USER as it is if USER is set and not blank; else the value of
\* USERNAME if that is set and not blank; else "root".
C21_Username ==
  login.calls > 0 =>
    IF ~Blank(login.username) THEN Trimmed(login.sent, login.username)
    ELSE IF login.user.set /\ ~Blank(login.user.val) THEN login.sent = login.user.val
    ELSE IF login.usernameVar.set /\ ~Blank(login.usernameVar.val)
      THEN login.sent = login.usernameVar.val
    ELSE login.sent = <<114, 111, 111, 116>>

C21_Witness ==
  /\ login.calls > 0
  /\ login.username = <<32>>
  /\ login.user = [set |-> TRUE, val |-> <<32, 32>>]
  /\ login.usernameVar = [set |-> TRUE, val |-> <<98, 32>>]
  /\ login.sent = <<98, 32>>

\* C22: the local pty registry holds at most one session per id (no child is
\* registered under two ids), and the child of every session that was
\* replaced in the registry or disconnected has been killed and waited on.
C22_LocalChildrenKilled ==
  /\ \A i, j \in Ids :
       (i /= j /\ local_sessions[i] /= None) => local_sessions[i] /= local_sessions[j]
  /\ \A c \in Children : child[c].reg = "out" => child[c].st = "killed"

C25_FileTransferLast ==
  [][\A t \in SftpPool :
       IF ~tp[t].disc /\ tp'[t].disc
         THEN /\ thr'[Main].op = "disconnect"
              /\ channels[thr'[Main].id] = None
              /\ sessions[thr'[Main].id] = None
       ELSE TRUE]_vars

\* The dispatcher thread takes the step and leaves position pc.
MainLeaves(pc) == thr[Main].pc = pc /\ thr'[Main].pc /= pc

\* C25 amended: disconnect(id) disconnects the file-transfer transport first
\* (in the step that starts the call), then removes and closes the shell
\* channel, then removes and disconnects the shell transport, then drops the
\* descriptor; no other step closes a channel or disconnects a transport of
\* a session.
C25_DisconnectOrder ==
  [][/\ \A t \in SftpPool :
          IF ~tp[t].disc /\ tp'[t].disc
            THEN /\ thr[Main].pc = "idle"
                 /\ thr'[Main].pc = "d_chan"
                 /\ sftp_sessions[thr'[Main].id] = t
                 /\ sftp_sessions'[thr'[Main].id] = None
          ELSE TRUE
     /\ IF MainLeaves("d_chan")
          THEN /\ thr'[Main].pc = "d_sess"
               /\ channels'[thr[Main].id] = None
               /\ channels[thr[Main].id] /= None => ch'[channels[thr[Main].id]].closed
        ELSE TRUE
     /\ \A c \in Channels :
          IF ~ch[c].closed /\ ch'[c].closed
            THEN MainLeaves("d_chan") /\ channels[thr[Main].id] = c
          ELSE TRUE
     /\ IF MainLeaves("d_sess")
          THEN /\ thr'[Main].pc = "d_conn"
               /\ sessions'[thr[Main].id] = None
               /\ sessions[thr[Main].id] /= None => tp'[sessions[thr[Main].id]].disc
        ELSE TRUE
     /\ \A t \in ShellPool :
          IF ~tp[t].disc /\ tp'[t].disc
            THEN MainLeaves("d_sess") /\ sessions[thr[Main].id] = t
          ELSE TRUE
     /\ IF MainLeaves("d_conn")
          THEN thr'[Main].pc = "idle" /\ ~connections'[thr[Main].id]
        ELSE TRUE]_vars

C25_Witness ==
  /\ last.op = "disconnect"
  /\ last.ret = "Ok"
  /\ \E t \in SftpPool : tp[t].disc
  /\ \E t \in ShellPool : tp[t].disc /\ tp[t].id = last.id
  /\ \E c \in Channels : ch[c].closed /\ ch[c].id = last.id

\* C26: once the reader of the channel registered under an id has ended (and
\* pushed terminal-disconnected), with no disconnect called the registration
\* of the channel is eventually dropped and the id eventually leaves the
\* session registry.
C26_ReaderEndDestroys ==
  \A c \in Channels, i \in Ids :
    (ch[c].reader = "done" /\ ch[c].events = 1 /\ channels[i] = c)
      ~> (channels[i] = None /\ sessions[i] = None)

\* C27: the end of one direction of a pipe closes only that direction: a
\* copier leaves its copy only when its own source has ended (its sender
\* half-closed and everything sent was read) or one of its own I/O calls
\* failed, never because the other copier has ended.
C27_DirectionsIndependent ==
  \A t \in FwdPool, k \in 1..MaxConns, d \in Dirs :
    /\ ~pipe[t][k][d].cut
    /\ (pipe[t][k][d].st = "done" /\ ~pipe[t][k][d].failed)
         => (pipe[t][k][d].eof /\ pipe[t][k][d].taken = Len(pipe[t][k][d].sent))

\* C28: whenever the accept call of a tunnel's accept loop fails with an error
\* other than "no connection pending", whatever the kind of the tunnel, the
\* loop ends (so no further connection is accepted) and nothing is reported
\* to any caller.
C28_AcceptErrorTerminates ==
  [][\A t \in FwdPool :
       IF AcceptError(t)
          THEN acc'[t] = "exited" /\ conn' = conn /\ last' = NoCall
          ELSE TRUE]_vars

\* A step that changes a registry is taken inside the critical section of
\* that registry's mutex: the guard is alive from the lock() to the drop (or
\* the end of the function) that the step spans.
RegistryChanged ==
  \/ regs' /= regs
  \/ local_sessions' /= local_sessions

\* The step disconnects a transport, closes a channel, or kills a child.
IoDone ==
  \/ \E t \in Transports : tp'[t].disc /= tp[t].disc
  \/ \E c \in Channels : ch'[c].closed /= ch[c].closed
  \/ \E c \in Children : child'[c].st = "killed" /\ child[c].st /= "killed"

\* C29: no operation performs transport, channel or child-process I/O while
\* it holds the mutex of a registry: the critical section in which an entry
\* is looked up or removed ends before the operation acts on the handle, so
\* no step both changes a registry and disconnects, closes or kills.
C29_NoIoUnderRegistryLock ==
  [][IF RegistryChanged THEN ~IoDone ELSE TRUE]_vars

\* C30 as stated: after a keepalive_send that advises n seconds the driver
\* sleeps n clamped into 5..60, so 5 for every n up to 5.
C30_SleepClamped ==
  nap.res = "ok" =>
    nap.secs = (IF nap.wait < 5 THEN 5 ELSE IF nap.wait > 60 THEN 60 ELSE nap.wait)

\* C30: after a keepalive_send that advises n seconds the driver of a session
\* or of a tunnel sleeps 5 seconds for n = 0, n seconds for 1 <= n <= 60 and
\* 60 seconds for n > 60; it never sleeps longer than 60 seconds nor, for an
\* advisory of at least 5, shorter than 5.
C30_Sleep ==
  nap.res = "ok" =>
    /\ nap.wait = 0 => nap.secs = 5
    /\ nap.wait \in 1..60 => nap.secs = nap.wait
    /\ nap.wait > 60 => nap.secs = 60
    /\ nap.secs \in 1..60

C30_Witness ==
  /\ nap.res = "ok"
  /\ nap.wait = 3
  /\ nap.secs = 3
  /\ tp[nap.t].role = "shell"

\* C31: a session keepalive driver whose session is no longer the one in the
\* session registry (it was removed by disconnect, a new session being
\* connected under the same id or not) leaves its loop at its next registry
\* check, and so sends no further keepalive on that session's transport.
C31_DriverStops ==
  [][\A t \in ShellPool :
       IF KaSessionCheck(t) /\ sessions[tp[t].id] /= t
          THEN ka'[t] = "exited"
          ELSE TRUE]_vars

\* C32: in a SOCKS5 worker the success reply 05 00 00 01 00 00 00 00 00 00 is
\* written only if the direct-tcpip channel was opened, and nothing is piped
\* on a connection before it is written; if the channel cannot be opened the
\* worker writes a reply beginning 05 01, closes the client stream and pipes
\* nothing.
C32_SocksReplyThenPipe ==
  \A t \in FwdPool, k \in 1..MaxConns :
    LET s == socks[t][k]
        n == Len(s.reply)
        tail == SubSeq(s.reply, 3, n) IN
      /\ s.end = "piping" =>
           /\ tail = <<5, 0, 0, 1, 0, 0, 0, 0, 0, 0>>
           /\ conn[t][k].st = "piping"
      /\ s.end = "refused" =>
           /\ n = 12 /\ tail[1] = 5 /\ tail[2] = 1
           /\ conn[t][k].st = "closed"
           /\ pipe[t][k] = NoPipe
      /\ (n = 12 /\ tail[2] = 0) => s.end = "piping"
      /\ pipe[t][k] /= NoPipe =>
           (s.end = "piping" /\ tail = <<5, 0, 0, 1, 0, 0, 0, 0, 0, 0>>)

C32_Witness ==
  \E t \in FwdPool, k \in 1..MaxConns :
    /\ socks[t][k].end = "piping"
    /\ pipe[t][k]["up"].taken > 0
    /\ Len(pipe[t][k]["down"].sent) > 0

C32_WitnessRefused ==
  \E t \in FwdPool, k \in 1..MaxConns :
    /\ socks[t][k].end = "refused"
    /\ conn[t][k].st = "closed"

\* C33: the reader of a local shell emits one terminal-output event for every
\* non-empty read, goes on after an Interrupted read, and when its loop ends
\* on eof or on another error it has pushed exactly one terminal-disconnected
\* event for its session id.
C33_LocalReaderDisconnected ==
  \A c \in Children :
    /\ child[c].reader = "done" =>
         (child[c].last \in {"eof", "error"} /\ child[c].events = 1)
    /\ child[c].reader /= "done" => child[c].events = 0

\* C34: whenever no call is in flight, a channel is registered under an id
\* only if the id is in the session registry: however open_shell(id) and
\* disconnect(id) interleave, after disconnect(id) has returned no channel is
\* left registered under id.
C34_ChannelOnlyWithSession ==
  (\A th \in Threads : ~Busy(th)) =>
    \A i \in Ids : channels[i] /= None => sessions[i] /= None

\* The handle of tunnel transport t is in the tunnel registry, or the
\* start_forward that built it has not yet reached its forwards.insert, or
\* the stop_forward that removed it is about to set its stop flag.
Registered(t) ==
  \/ \E i \in Ids : forwards[i] = t
  \/ \E th \in Workers : thr[th].pc \in {"f_insert", "x_flag"} /\ thr[th].t = t

\* C35: however two start_forward calls with the same id interleave, at most
\* one tunnel runs under that id, and every running accept loop whose stop
\* flag is unset belongs to a tunnel whose handle is in the tunnel registry
\* (or is held by the call that is inserting or stopping it), so that
\* stop_forward can stop it.
C35_RunningTunnelsRegistered ==
  \A t \in FwdPool :
    (acc[t] \in {"check", "accept"} /\ ~stop[t]) => Registered(t)

\* C36: in the state in which disconnect(id) returns, every file-transfer
\* transport that was authenticated for the id (the calls of this
\* specification all carry one id) is the one cached under the id or has been
\* disconnected, whatever execute and sftp_* calls ran beside it.
C36_SftpTransportsClosed ==
  (last.op = "disconnect" /\ last.ret = "Ok") =>
    \A t \in SftpPool :
      tp[t].role = "sftp" => (tp[t].disc \/ sftp_sessions[last.id] = t)

\* C37: whenever no call is in flight, an id is in the session registry if
\* and only if it is in the connection registry, however connect and
\* disconnect of that id interleaved.
C37_SessionIffDescriptor ==
  (\A th \in Threads : ~Busy(th)) =>
    \A i \in Ids : (sessions[i] /= None) <=> connections[i]

\* The session keepalive drivers spawned for id i that are still running.
RunningDrivers(i) ==
  {t \in ShellPool : tp[t].id = i /\ ka[t] \in {"check", "send"}}

\* C38: whenever no call is in flight, the channel registered under an id
\* that is in the session registry was opened on the shell transport
\* registered under that id, and at most one session keepalive driver is
\* running for the id: a connect under an id that is already connected
\* leaves nothing of the previous session behind.
C38_OneSessionPerId ==
  (\A th \in Threads : ~Busy(th)) =>
    \A i \in Ids :
      /\ (sessions[i] /= None /\ channels[i] /= None)
           => ch[channels[i]].t = sessions[i]
      /\ Cardinality(RunningDrivers(i)) <= 1

\* C39: when start_forward returns a missing-binding, bind or listen error,
\* which it does after it has authenticated the tunnel transport and spawned
\* its keepalive driver, that driver eventually exits.
C39_FailedStartStopsDriver ==
  \A t \in FwdPool :
    (/\ last.op = "start_forward"
     /\ last.ret \in {"BindingMissing", "BindError", "ListenError"}
     /\ last.t = t)
      ~> (ka[t] = "exited")

\* The order in which the mutexes are taken: the dispatcher mutex, then the
\* session registry, then the other registries, then the mutex of a handle.
Rank(m) ==
  CASE m = "dispatcher" -> 0
    [] m = "sessions" -> 1
    [] m \in Registries \ {"sessions"} -> 2
    [] OTHER -> 3

HeldBy(a) == {m \in Mutexes : held[m] = a}

\* C40: no interleaving of the operations, the reader and the keepalive
\* drivers deadlocks on the dispatcher, registry, transport and channel
\* mutexes: a thread asks for a mutex only while every mutex it holds comes
\* earlier in one fixed order, in every state in which a thread is in an
\* operation some thread can make its next call, and every operation that
\* was started returns.
C40_LockOrder ==
  \A a \in Agents :
    (lpc[a] /= Resting /\ Pending(a)[1] = "acq") =>
      \A m \in HeldBy(a) : Rank(m) < Rank(Pending(a)[2])

C40_Progress ==
  (\E a \in Agents : lpc[a] /= Resting) =>
    (\E a \in Agents : lpc[a] /= Resting /\ ~Blocked(a))

C40_NoDeadlock ==
  /\ [](C40_LockOrder /\ C40_Progress)
  /\ \A a \in Callers : (lpc[a] /= Resting) ~> (lpc[a] = Resting)

C40_Witness ==
  /\ lpc["worker"].op = "open_shell"
  /\ held["sessions"] = "worker"
  /\ Blocked("worker")
  /\ lpc["main"].op = "disconnect"
  /\ Blocked("main")
  /\ held["shell_transport"] = "ka_session"

====
